---- MODULE Spec2Model ----
(***************************************************************************)
(* Collaborative e-book reader: the real-time session engine of the       *)
(* Express / Socket.io server (server.js) with its SQLite tables, the     *)
(* HTTP annotation and progress endpoints, and the progress reporting of  *)
(* the React reader (EPUBReader.jsx).                                     *)
(*                                                                         *)
(* Database calls are asynchronous: a handler issues a statement and      *)
(* continues in its callback.  One step of the model is "the statement    *)
(* executes and its callback runs"; between two such steps of one handler *)
(* any step of any other handler may run.  Fire-and-forget statements     *)
(* (the user_count updates, which have no callback) are pending work that *)
(* is applied by a step of its own.                                       *)
(***************************************************************************)
EXTENDS Integers, FiniteSets, Sequences, Bags, TLC

\* ---------------------------------------------------------------- bounds
NumConns == 3
MaxJoinReqs == 4
MaxRejoinReqs == 3
NumHlConns == 2
MaxHlJoinReqs == 3
MaxHighlightReqs == 2
MaxCommentReqs == 6
MaxHighlightPosts == 11
NumReaders == 2
MaxProgressReports == 2
MaxReloads == 1
MaxTicks == 1
NumBookConns == 2
MaxBookJoins == 2
MaxBookHighlights == 2
MaxDisconnects == 9
MaxMalformed == 2
MaxCount == 11
MaxWaits == 2
MaxQueries == 2
MaxMessages == 12
MaxRateTicks == 3
MaxProfileReqs == 3

\* ------------------------------------------------------ program constants
\* limits = getCurrentLimits(NODE_ENV); the values are those of NODE_ENV=testing
MAX_CONCURRENT_PER_SESSION == 3
MAX_PER_USER_PER_BOOK == 10
MAX_PER_HIGHLIGHT == 5
MIN_LENGTH_CHARS == 1
MAX_LENGTH_CHARS == 500
MAX_REPLY_DEPTH == 2
PROGRESS_UPDATE_THROTTLE == 2000
RECONNECTION_ATTEMPTS == 5
MAX_MESSAGES_PER_SECOND == 10
\* "Reset counter every second": now - lastReset >= 1000
RATE_WINDOW_MS == 1000
\* username.length > 50 of the profiles route
MAX_USERNAME_LENGTH == 50
SESSION_TIMEOUT_MS == 1800000
\* datetime('now', '-5 minutes') of the progress query, in milliseconds
ACTIVE_WINDOW_MS == 300000

Conns == 1..NumConns
Sessions == {"s1", "s2"}
UnknownSession == "sX"
NoSession == "none"
Books == {"b1"}
Null == <<0, 0>>
HighlightIds == {"h1"}
NoHighlight == "none"
\* content lengths a client sends: around MIN_LENGTH_CHARS and MAX_LENGTH_CHARS
Lengths == {0, 1, 500, 501}
HttpLengths == {0, 501}
\* the profile the HTTP clients act for
HttpProfile == <<0, 1>>
HttpUsername == "reader"
\* parentId of a create-comment: none, or the id of a comment
ParentIds == {Null, <<0, 1>>}
\* the value of a column that an INSERT does not bind
Missing == "NULL"
\* the reader pages (browser tabs); they share the profile kept in localStorage
Readers == 1..NumReaders
\* the caller of the HTTP API that is not a reader page
ApiClient == 0
\* scroll positions and reported percentages
Positions == {5, 10, 40}

VARIABLES
  sessions,        \* table sessions: session id -> user_count
  users,           \* table users: set of rows [id, session_id]
  highlights,      \* table highlights: set of rows [id, book_id, user_id, username]
  pendingInc,      \* queued UPDATE ... user_count + 1, per session
  pendingDec,      \* queued UPDATE ... user_count - 1, per session
  status,          \* socket of a connection: "new", "open", "closed"
  rooms,           \* Socket.io rooms the socket is in
  currentUser,     \* closure variable currentUser (its id), Null when unset
  currentSession,  \* closure variable currentSession
  join,            \* join-session handler in flight
  disc,            \* disconnect handler in flight
  hl,              \* create-highlight handler in flight
  joinCount,       \* join-session messages received on the connection
  hlCount,         \* create-highlight messages received on the connection
  inbox,           \* events delivered to the client of the connection
  comments,        \* table comments: set of rows [id, highlight_id, user_id, username, parent_id, len]
  cm,              \* create-comment handler in flight
  cmCount,         \* create-comment messages received on the connection
  httpCount,       \* HTTP requests received, per route
  responses,       \* HTTP responses sent: bag of [route, status]
  user_progress,   \* table user_progress: set of rows [id, progress, created_at,
                   \* last_updated]
  posts,           \* POST .../progress requests in flight
  reader,          \* EPUBReader state of each reader page
  now,             \* Date.now()
  progCount,       \* update-progress messages received on the connection
  activeUsers,     \* modular server, collaboration service: set of [book, user, socket]
  bookHighlights,  \* modular server, database service: set of rows [id, book, user]
  bookRooms,       \* modular server: Socket.io rooms the socket is in
  jb,              \* modular server: join-book handler in flight
  ah,              \* modular server: add-highlight handler in flight
  bkCount,         \* modular server: messages received, per kind
  bkInbox,          \* modular server: events delivered to the client
  ws,              \* reconnection state of the client socket
  proc,            \* the server process: running or crashed, malformed messages received
  cfg,             \* the limits read at process start, the last validator
                   \* call and the last upgradeToPhase call
  got,             \* the answers to the GET progress requests, and the waits
  rl,              \* rate limiting of one socket: the clock, messageCount,
                   \* lastReset, and what became of the messages
  book_profiles,   \* table book_profiles: set of rows [id, book_id, username]
  profileReqs,     \* POST /api/books/:bookId/profiles requests and their answers
  tables           \* the objects MVP_LIMITS, ENVIRONMENT_OVERRIDES and
                   \* SCALING_PHASES of limits.js, as they are now

sessVars == <<sessions, users, highlights, pendingInc, pendingDec, status, rooms,
              currentUser, currentSession, join, disc, hl, joinCount, hlCount>>
cmVars == <<comments, cm, cmCount>>
httpVars == <<httpCount, responses>>

progVars == <<user_progress, posts, reader, now, progCount>>

\* the client's reconnection set-up, the server process, the configuration
\* the state of the examples of usage-example.js
auxVars == <<rl, book_profiles, profileReqs, tables>>
extVars == <<ws, proc, cfg, got, auxVars>>

bkVars == <<activeUsers, bookHighlights, bookRooms, jb, ah, bkCount, bkInbox>>

vars == <<sessVars, inbox, cmVars, httpVars, progVars, bkVars, extVars>>

\* what the Socket.io session handlers leave alone
otherVars == <<cmVars, httpVars, progVars, bkVars, extVars>>

dbVars == <<sessions, users, highlights, pendingInc, pendingDec>>
sockVars == <<status, rooms, currentUser, currentSession>>

\* ------------------------------------------------------------- transport
Event(kind, id, sid) == [kind |-> kind, id |-> id, sid |-> sid]

\* socket.emit(ev): a packet for a socket that is not connected is discarded
Emit(ib, c, ev) ==
  IF status[c] = "open" THEN [ib EXCEPT ![c] = @ (+) SetToBag({ev})] ELSE ib

\* socket.to(room).emit(ev): every connected socket in the room but the sender
To(ib, room, c, ev) ==
  [d \in Conns |->
     IF d # c /\ status[d] = "open" /\ room \in rooms[d]
     THEN ib[d] (+) SetToBag({ev}) ELSE ib[d]]

Received(c, ev) == CopiesIn(ev, inbox[c])

\* the step delivers to connection d one more copy of the event ev
Delivered(d, ev) == CopiesIn(ev, inbox'[d]) > CopiesIn(ev, inbox[d])

Roster(s) == {u \in users : u.session_id = s}

IdleJoin == [pc |-> "idle", sid |-> NoSession, uid |-> Null, pid |-> Null]
IdleDisc == [pc |-> "idle", uid |-> Null]
IdleHl == [pc |-> "idle", hid |-> Null, book |-> "b1", uid |-> Null]

Routes == {"comments", "progress", "highlights"}
IdleCm == [pc |-> "idle", cid |-> Null, hid |-> "h1", uid |-> Null, parent |-> Null,
           len |-> 0]

\* useState(0) of furthestProgress and lastProgressUpdate; seenFurthest and
\* seenLast are the values captured by the scroll listener when it was
\* attached; mount tells the mounts of the page apart
FreshReader(mount) ==
  [furthest |-> 0, last |-> 0, seenFurthest |-> 0, seenLast |-> 0, mount |-> mount]
\* any clock value at least PROGRESS_UPDATE_THROTTLE behaves like today's
StartTime == PROGRESS_UPDATE_THROTTLE

\* the modular server (server with ./services): its connected sockets, the
\* users its clients name, its handlers at rest
BookConns == 1..NumBookConns
BookUsers == {"u1", "u2"}
BookMessages == {"join-book", "add-highlight"}
IdleJb == [pc |-> "idle", book |-> "b1", user |-> "u1", seen |-> {}]
IdleAh == [pc |-> "idle", book |-> "b1", user |-> "u1"]

\* ------------------------------------------------------- configuration
\* the limits the quota checks read: USER.MAX_CONCURRENT_PER_SESSION,
\* CONTENT.HIGHLIGHTS.MAX_PER_USER_PER_BOOK, CONTENT.COMMENTS.MAX_PER_HIGHLIGHT;
\* and the limits of the upload: FILE.MAX_SIZE_MB, FILE.MAX_SIZE_BYTES
MVP_LIMITS ==
  [MAX_CONCURRENT_PER_SESSION |-> 5, MAX_PER_USER_PER_BOOK |-> 100, MAX_PER_HIGHLIGHT |-> 5,
   MAX_SIZE_MB |-> 25, MAX_SIZE_BYTES |-> 25 * 1024 * 1024]

\* an override holds only the limits it names
ENVIRONMENT_OVERRIDES ==
  [development |-> [MAX_SIZE_MB |-> 50, MAX_CONCURRENT_PER_SESSION |-> 10],
   testing |-> [MAX_SIZE_MB |-> 10, MAX_CONCURRENT_PER_SESSION |-> 3,
                MAX_PER_USER_PER_BOOK |-> 10],
   production |-> [k \in {} |-> 0]]

\* deepMerge(target, source) on the leaves: a limit of source replaces the
\* limit of target, every other limit of target is kept
deepMerge(target, source) ==
  [k \in DOMAIN target \cup DOMAIN source |->
     IF k \in DOMAIN source THEN source[k] ELSE target[k]]

\* baseLimits = { ...MVP_LIMITS }; overrides = ENVIRONMENT_OVERRIDES[environment];
\* the objects are read as they are when the call is made
getCurrentLimits(environment) ==
  deepMerge(tables.MVP_LIMITS, tables.ENVIRONMENT_OVERRIDES[environment])

SCALING_PHASES ==
  [PHASE_1 |-> [MAX_SIZE_MB |-> 25, MAX_CONCURRENT_PER_SESSION |-> 5,
                MAX_PER_USER_PER_BOOK |-> 100],
   PHASE_2 |-> [MAX_SIZE_MB |-> 50, MAX_CONCURRENT_PER_SESSION |-> 10,
                MAX_PER_USER_PER_BOOK |-> 200],
   PHASE_3 |-> [MAX_SIZE_MB |-> 100, MAX_CONCURRENT_PER_SESSION |-> 25,
                MAX_PER_USER_PER_BOOK |-> 500]]

\* the counts a caller passes to a validator: the small ones, and the ones
\* around the highlight ceilings of MVP_LIMITS and of PHASE_2
Counts == (0..MaxCount) \cup {99, 100, 101, 199, 200, 201}

\* const limits = getCurrentLimits(process.env.NODE_ENV || 'development')
\* has run; no validator and no upgradeToPhase has been called
ProcessStart(environment) ==
  [env |-> environment, limits |-> getCurrentLimits(environment),
   check |-> [limit |-> "none", count |-> 0, result |-> FALSE],
   phase |-> "none", newLimits |-> MVP_LIMITS, thrown |-> FALSE,
   config |-> [environment |-> "none", limits |-> MVP_LIMITS]]

\* the NODE_ENV of the sessions modelled here: MAX_CONCURRENT_PER_SESSION
\* and MAX_PER_USER_PER_BOOK above are its values
NODE_ENV == "testing"

\* setupWebSocketLimits(socket) has run on a connected socket:
\* let reconnectAttempts = 0, no timer set
IdleWs == [connected |-> TRUE, reconnectAttempts |-> 0, timers |-> 0,
           errors |-> 0, disconnects |-> 0]

\* the clock values of the rate limiter: every RateStep milliseconds
RateStep == 500
RateTimes == {k * RateStep : k \in 0..MaxRateTicks}
\* setupWebSocketLimits(socket) has run: let messageCount = 0,
\* lastReset = Date.now(); nothing has arrived yet
IdleRl == [now |-> 0, messageCount |-> 0, lastReset |-> 0, received |-> 0,
           processed |-> [t \in RateTimes |-> 0], errors |-> 0]

\* the tables and handlers that no session has touched yet
AnnexInit ==
  /\ comments = {}
  /\ cm = [c \in Conns |-> IdleCm]
  /\ cmCount = [c \in Conns |-> 0]
  /\ httpCount = [r \in Routes |-> 0]
  /\ responses = EmptyBag
  /\ user_progress = {}
  /\ posts = {}
  /\ reader = [cl \in Readers |-> FreshReader(0)]
  /\ now = StartTime
  /\ progCount = [c \in Conns |-> 0]
  /\ activeUsers = {}
  /\ bookHighlights = {}
  /\ bookRooms = [c \in BookConns |-> {}]
  /\ jb = [c \in BookConns |-> IdleJb]
  /\ ah = [c \in BookConns |-> IdleAh]
  /\ bkCount = [k \in BookMessages |-> 0]
  /\ bkInbox = [c \in BookConns |-> EmptyBag]
  /\ ws = IdleWs
  /\ proc = [state |-> "running", malformed |-> 0]
  /\ got = [n |-> 0, route |-> "none", status |-> 0, users |-> {}, waits |-> 0]
  /\ rl = IdleRl
  /\ book_profiles = {}
  /\ profileReqs = {}
  /\ tables = [MVP_LIMITS |-> MVP_LIMITS, ENVIRONMENT_OVERRIDES |-> ENVIRONMENT_OVERRIDES,
               SCALING_PHASES |-> SCALING_PHASES]

\* the server right after start-up and the upload that created the sessions
ColdInit ==
  /\ sessions = [s \in Sessions |-> 0]
  /\ users = {}
  /\ highlights = {}
  /\ pendingInc = [s \in Sessions |-> 0]
  /\ pendingDec = [s \in Sessions |-> 0]
  /\ status = [c \in Conns |-> "new"]
  /\ rooms = [c \in Conns |-> {}]
  /\ currentUser = [c \in Conns |-> Null]
  /\ currentSession = [c \in Conns |-> NoSession]
  /\ join = [c \in Conns |-> IdleJoin]
  /\ disc = [c \in Conns |-> IdleDisc]
  /\ hl = [c \in Conns |-> IdleHl]
  /\ joinCount = [c \in Conns |-> 0]
  /\ hlCount = [c \in Conns |-> 0]
  /\ inbox = [c \in Conns |-> EmptyBag]
  /\ AnnexInit
  /\ cfg = ProcessStart(NODE_ENV)

\* the state ColdInit reaches when connection 1 and then connection 2 have
\* connected and joined session s1, and both joins have run to completion
Joined == {1, 2}
StartCount(s) == IF s = "s1" THEN Cardinality(Joined) ELSE 0
JoinedInit ==
  /\ sessions = [s \in Sessions |-> StartCount(s)]
  /\ users = {[id |-> <<c, 1>>, session_id |-> "s1"] : c \in Joined}
  /\ highlights = {}
  /\ pendingInc = [s \in Sessions |-> 0]
  /\ pendingDec = [s \in Sessions |-> 0]
  /\ status = [c \in Conns |-> IF c \in Joined THEN "open" ELSE "new"]
  /\ rooms = [c \in Conns |-> IF c \in Joined THEN {"s1"} ELSE {}]
  /\ currentUser = [c \in Conns |-> IF c \in Joined THEN <<c, 1>> ELSE Null]
  /\ currentSession = [c \in Conns |-> IF c \in Joined THEN "s1" ELSE NoSession]
  /\ join = [c \in Conns |-> IdleJoin]
  /\ disc = [c \in Conns |-> IdleDisc]
  /\ hl = [c \in Conns |-> IdleHl]
  /\ joinCount = [c \in Conns |-> IF c \in Joined THEN 1 ELSE 0]
  /\ hlCount = [c \in Conns |-> 0]
  /\ inbox = [c \in Conns |->
       IF c = 1 THEN SetToBag({Event("user-joined", <<1, 1>>, "s1"),
                               Event("session-users", <<1, 1>>, "s1"),
                               Event("user-joined-session", <<2, 1>>, "s1")})
       ELSE IF c = 2 THEN SetToBag({Event("user-joined", <<2, 1>>, "s1"),
                                    Event("session-users", <<2, 1>>, "s1")})
       ELSE EmptyBag]
  /\ AnnexInit

Init == JoinedInit /\ cfg = ProcessStart(NODE_ENV)

\* the same state, for each value NODE_ENV can have
QuotaInit ==
  JoinedInit /\ \E environment \in DOMAIN ENVIRONMENT_OVERRIDES : cfg = ProcessStart(environment)

\* ------------------------------------------------------------ connection
\* io.on('connection'): currentUser = null, currentSession = null
Connect(c) ==
  /\ status[c] = "new"
  /\ status' = [status EXCEPT ![c] = "open"]
  /\ UNCHANGED otherVars
  /\ UNCHANGED <<dbVars, rooms, currentUser, currentSession, join, disc, hl,
                 joinCount, hlCount, inbox>>

\* ---------------------------------------------------------- join-session
RECURSIVE SumTo(_, _)
SumTo(f, n) == IF n = 0 THEN 0 ELSE f[n] + SumTo(f, n - 1)

\* join-session messages received so far on all connections
JoinReqs == SumTo(joinCount, NumConns)

\* the participant ids a join-session message may carry: none, or the id
\* the server gave connection 1 on its first join
ParticipantIds == {Null, <<1, 1>>}

\* the message arrives; db.get('SELECT * FROM sessions WHERE id = ?') is issued.
\* const { sessionId } = data: pid, the participant id the message carries,
\* is never read by the handler
JoinSession(c, sid, budget) ==
  /\ status[c] = "open"
  /\ join[c].pc = "idle"
  /\ JoinReqs < budget
  /\ joinCount' = [joinCount EXCEPT ![c] = @ + 1]
  /\ \E pid \in ParticipantIds :
       join' = [join EXCEPT ![c] = [pc |-> "get", sid |-> sid, uid |-> Null,
                                    pid |-> pid]]
  /\ UNCHANGED otherVars
  /\ UNCHANGED <<dbVars, sockVars, disc, hl, hlCount, inbox>>

\* session.user_count >= limits.USER.MAX_CONCURRENT_PER_SESSION
UserLimitReached(count) == count >= MAX_CONCURRENT_PER_SESSION

\* the participant with this id is known to the registry
Known(pid) == \E u \in users : u.id = pid

\* JoinGetDone as it would be if the handler took over the participant id a
\* join carries without looking for the connection that holds it
JoinGetDoneReusingId(c) ==
  /\ join[c].pc = "get"
  /\ LET sid == join[c].sid IN
       IF sid \notin Sessions
       THEN /\ inbox' = Emit(inbox, c, Event("error: Session not found", Null, sid))
            /\ join' = [join EXCEPT ![c] = IdleJoin]
       ELSE IF UserLimitReached(sessions[sid])
       THEN /\ inbox' = Emit(inbox, c, Event("error: Session is full", Null, sid))
            /\ join' = [join EXCEPT ![c] = IdleJoin]
       ELSE /\ join' = [join EXCEPT ![c] =
                         [pc |-> "insert", sid |-> sid,
                          uid |-> IF Known(join[c].pid) THEN join[c].pid
                                  ELSE <<c, joinCount[c]>>,
                          pid |-> join[c].pid]]
            /\ inbox' = inbox
  /\ UNCHANGED otherVars
  /\ UNCHANGED <<dbVars, sockVars, disc, hl, joinCount, hlCount>>

\* JoinGetDone as it would be if the rejection were emitted to the room of
\* the session instead of to the socket
JoinGetDoneErrorToRoom(c) ==
  /\ join[c].pc = "get"
  /\ LET sid == join[c].sid IN
       IF sid \notin Sessions
       THEN /\ inbox' = To(Emit(inbox, c, Event("error: Session not found", Null, sid)),
                           sid, c, Event("error: Session not found", Null, sid))
            /\ join' = [join EXCEPT ![c] = IdleJoin]
       ELSE IF UserLimitReached(sessions[sid])
       THEN /\ inbox' = To(Emit(inbox, c, Event("error: Session is full", Null, sid)),
                           sid, c, Event("error: Session is full", Null, sid))
            /\ join' = [join EXCEPT ![c] = IdleJoin]
       ELSE /\ join' = [join EXCEPT ![c] = [pc |-> "insert", sid |-> sid,
                                             uid |-> <<c, joinCount[c]>>,
                                             pid |-> join[c].pid]]
            /\ inbox' = inbox
  /\ UNCHANGED otherVars
  /\ UNCHANGED <<dbVars, sockVars, disc, hl, joinCount, hlCount>>

\* the SELECT executes and its callback runs
JoinGetDone(c) ==
  /\ join[c].pc = "get"
  /\ LET sid == join[c].sid IN
       IF sid \notin Sessions
       THEN /\ inbox' = Emit(inbox, c, Event("error: Session not found", Null, sid))
            /\ join' = [join EXCEPT ![c] = IdleJoin]
       ELSE IF UserLimitReached(sessions[sid])
       THEN /\ inbox' = Emit(inbox, c, Event("error: Session is full", Null, sid))
            /\ join' = [join EXCEPT ![c] = IdleJoin]
       ELSE /\ join' = [join EXCEPT ![c] = [pc |-> "insert", sid |-> sid,
                                             uid |-> <<c, joinCount[c]>>,
                                             pid |-> join[c].pid]]
            /\ inbox' = inbox
  /\ UNCHANGED otherVars
  /\ UNCHANGED <<dbVars, sockVars, disc, hl, joinCount, hlCount>>

\* the INSERT INTO users executes and its callback runs: the count update is
\* queued, the closure variables are set, the socket joins the room, the
\* events are emitted and the roster query is issued
JoinInsertDone(c) ==
  /\ join[c].pc = "insert"
  /\ LET sid == join[c].sid
         uid == join[c].uid
         rooms1 == IF status[c] = "open"
                   THEN [rooms EXCEPT ![c] = @ \cup {sid}] ELSE rooms
     IN /\ users' = users \cup {[id |-> uid, session_id |-> sid]}
        /\ pendingInc' = [pendingInc EXCEPT ![sid] = @ + 1]
        /\ currentUser' = [currentUser EXCEPT ![c] = uid]
        /\ currentSession' = [currentSession EXCEPT ![c] = sid]
        /\ rooms' = rooms1
        /\ inbox' = To(Emit(inbox, c, Event("user-joined", uid, sid)),
                       sid, c, Event("user-joined-session", uid, sid))
        /\ join' = [join EXCEPT ![c].pc = "users"]
  /\ UNCHANGED otherVars
  /\ UNCHANGED <<sessions, highlights, pendingDec, status, disc, hl,
                 joinCount, hlCount>>

\* the SELECT * FROM users WHERE session_id = ? executes and its callback runs
JoinUsersDone(c) ==
  /\ join[c].pc = "users"
  /\ inbox' = Emit(inbox, c, Event("session-users", join[c].uid, join[c].sid))
  /\ join' = [join EXCEPT ![c] = IdleJoin]
  /\ UNCHANGED otherVars
  /\ UNCHANGED <<dbVars, sockVars, disc, hl, joinCount, hlCount>>

\* a queued UPDATE sessions SET user_count = user_count + 1 executes
ApplyInc(s) ==
  /\ pendingInc[s] > 0
  /\ pendingInc' = [pendingInc EXCEPT ![s] = @ - 1]
  /\ sessions' = [sessions EXCEPT ![s] = @ + 1]
  /\ UNCHANGED otherVars
  /\ UNCHANGED <<users, highlights, pendingDec, sockVars, join, disc, hl,
                 joinCount, hlCount, inbox>>

\* ------------------------------------------------------------ disconnect
\* DELETE FROM users WHERE id = ?
DeleteUser(us, uid) == {u \in us : u.id # uid}

\* UPDATE sessions SET user_count = user_count - 1 WHERE id = ?
DecrementCount(cnt, s) == IF s \in DOMAIN cnt THEN [cnt EXCEPT ![s] = @ - 1] ELSE cnt

\* the transport closes: the socket leaves its rooms and the handler runs
Disconnect(c) ==
  /\ status[c] = "open"
  /\ status' = [status EXCEPT ![c] = "closed"]
  /\ rooms' = [rooms EXCEPT ![c] = {}]
  /\ disc' = [disc EXCEPT ![c] =
                IF currentUser[c] # Null /\ currentSession[c] # NoSession
                THEN [pc |-> "delete", uid |-> currentUser[c]]
                ELSE [pc |-> "done", uid |-> Null]]
  /\ UNCHANGED otherVars
  /\ UNCHANGED <<dbVars, currentUser, currentSession, join, hl, joinCount,
                 hlCount, inbox>>

\* the DELETE executes and its callback runs: the decrement is queued for the
\* session, and user-left carries the user, the closure variables name now
DisconnectDeleteDone(c) ==
  /\ disc[c].pc = "delete"
  /\ users' = DeleteUser(users, disc[c].uid)
  /\ pendingDec' = [pendingDec EXCEPT ![currentSession[c]] = @ + 1]
  /\ inbox' = To(inbox, currentSession[c], c,
                 Event("user-left", currentUser[c], currentSession[c]))
  /\ disc' = [disc EXCEPT ![c].pc = "done"]
  /\ UNCHANGED otherVars
  /\ UNCHANGED <<sessions, highlights, pendingInc, sockVars, join, hl,
                 joinCount, hlCount>>

\* a queued UPDATE sessions SET user_count = user_count - 1 executes
ApplyDec(s) ==
  /\ pendingDec[s] > 0
  /\ pendingDec' = [pendingDec EXCEPT ![s] = @ - 1]
  /\ sessions' = DecrementCount(sessions, s)
  /\ UNCHANGED otherVars
  /\ UNCHANGED <<users, highlights, pendingInc, sockVars, join, disc, hl,
                 joinCount, hlCount, inbox>>

\* ------------------------------------------------------- create-highlight
\* highlights and comments declare username TEXT NOT NULL without a
\* default: a row whose username is not bound is refused by the INSERT
NotNullOk(row) == row.username # Missing

\* SELECT COUNT(*) FROM highlights WHERE user_id = ? AND book_id = ?
HighlightCount(uid, book) ==
  Cardinality({h \in highlights : h.user_id = uid /\ h.book_id = book})

\* create-highlight messages received so far on all connections
HighlightReqs == SumTo(hlCount, NumConns)

\* the message arrives: without a joined user an error is emitted, otherwise
\* the id is generated and the count query is issued for currentUser.id
\* CreateHighlight as it would be without the check of currentUser and
\* currentSession
CreateHighlightUnchecked(c, book) ==
  /\ status[c] = "open"
  /\ hl[c].pc = "idle"
  /\ HighlightReqs < MaxHighlightReqs
  /\ hlCount' = [hlCount EXCEPT ![c] = @ + 1]
  /\ hl' = [hl EXCEPT ![c] = [pc |-> "count", hid |-> <<c, hlCount[c] + 1>>,
                              book |-> book, uid |-> currentUser[c]]]
  /\ inbox' = inbox
  /\ UNCHANGED otherVars
  /\ UNCHANGED <<dbVars, sockVars, join, disc, joinCount>>

CreateHighlight(c, book) ==
  /\ status[c] = "open"
  /\ hl[c].pc = "idle"
  /\ HighlightReqs < MaxHighlightReqs
  /\ hlCount' = [hlCount EXCEPT ![c] = @ + 1]
  /\ IF currentUser[c] = Null \/ currentSession[c] = NoSession
     THEN /\ inbox' = Emit(inbox, c, Event("error: Not connected to session",
                                          Null, NoSession))
          /\ hl' = hl
     ELSE /\ hl' = [hl EXCEPT ![c] = [pc |-> "count", hid |-> <<c, hlCount[c] + 1>>,
                                      book |-> book, uid |-> currentUser[c]]]
          /\ inbox' = inbox
  /\ UNCHANGED otherVars
  /\ UNCHANGED <<dbVars, sockVars, join, disc, joinCount>>

\* the count query executes and its callback runs: the limit is checked and
\* the INSERT is issued with the currentUser.id of this moment
HighlightCountDone(c) ==
  /\ hl[c].pc = "count"
  /\ IF HighlightCount(hl[c].uid, hl[c].book) >= MAX_PER_USER_PER_BOOK
     THEN /\ inbox' = Emit(inbox, c, Event("error: Highlight limit reached",
                                          Null, currentSession[c]))
          /\ hl' = [hl EXCEPT ![c] = IdleHl]
     ELSE /\ hl' = [hl EXCEPT ![c].pc = "insert", ![c].uid = currentUser[c]]
          /\ inbox' = inbox
  /\ UNCHANGED otherVars
  /\ UNCHANGED <<dbVars, sockVars, join, disc, joinCount, hlCount>>

\* the count query fails and its callback runs with err: err || ... is
\* true, whatever the count is
HighlightCountFailed(c) ==
  /\ hl[c].pc = "count"
  /\ inbox' = Emit(inbox, c, Event("error: Highlight limit reached",
                                   Null, currentSession[c]))
  /\ hl' = [hl EXCEPT ![c] = IdleHl]
  /\ UNCHANGED otherVars
  /\ UNCHANGED <<dbVars, sockVars, join, disc, joinCount, hlCount>>

\* the originator's confirmation, then the broadcast to the others in the room
PublishHighlight(ib, c, hid, sid) ==
  To(Emit(ib, c, Event("highlight-created", hid, sid)),
     sid, c, Event("highlight-added", hid, sid))

\* HighlightInsertDone as it would be if the callback published the
\* highlight without looking at err
HighlightInsertDoneIgnoringErr(c) ==
  /\ hl[c].pc = "insert"
  /\ LET row == [id |-> hl[c].hid, book_id |-> hl[c].book, user_id |-> hl[c].uid,
                 username |-> Missing]
     IN /\ highlights' = IF NotNullOk(row) THEN highlights \cup {row} ELSE highlights
        /\ inbox' = PublishHighlight(inbox, c, hl[c].hid, currentSession[c])
  /\ hl' = [hl EXCEPT ![c] = IdleHl]
  /\ UNCHANGED otherVars
  /\ UNCHANGED <<sessions, users, pendingInc, pendingDec, sockVars, join, disc,
                 joinCount, hlCount>>

\* the INSERT INTO highlights (id, book_id, user_id, cfi, text_content,
\* color) executes and its callback runs: on an error the client is told,
\* otherwise the highlight is published
HighlightInsertDone(c) ==
  /\ hl[c].pc = "insert"
  /\ LET row == [id |-> hl[c].hid, book_id |-> hl[c].book, user_id |-> hl[c].uid,
                 username |-> Missing]
     IN IF NotNullOk(row)
        THEN /\ highlights' = highlights \cup {row}
             /\ inbox' = PublishHighlight(inbox, c, hl[c].hid, currentSession[c])
        ELSE /\ highlights' = highlights
             /\ inbox' = Emit(inbox, c, Event("error: Failed to create highlight",
                                              Null, currentSession[c]))
  /\ hl' = [hl EXCEPT ![c] = IdleHl]
  /\ UNCHANGED otherVars
  /\ UNCHANGED <<sessions, users, pendingInc, pendingDec, sockVars, join, disc,
                 joinCount, hlCount>>

\* --------------------------------------------------------- create-comment
\* create-comment messages and comment POSTs received so far
CommentReqs == SumTo(cmCount, NumConns) + httpCount["comments"]

\* content.length outside MIN_LENGTH_CHARS .. MAX_LENGTH_CHARS
CommentLengthInvalid(len) == len < MIN_LENGTH_CHARS \/ len > MAX_LENGTH_CHARS

\* SELECT COUNT(*) FROM comments WHERE highlight_id = ?
CommentCount(hid) == Cardinality({r \in comments : r.highlight_id = hid})

\* result.count >= limits.CONTENT.COMMENTS.MAX_PER_HIGHLIGHT
CommentLimitReached(count) == count >= MAX_PER_HIGHLIGHT

\* the message arrives: the joined user and the length are checked, the id
\* is generated and the count query is issued
CreateComment(c, hid, len, parent) ==
  /\ status[c] = "open"
  /\ cm[c].pc = "idle"
  /\ CommentReqs < MaxCommentReqs
  /\ cmCount' = [cmCount EXCEPT ![c] = @ + 1]
  /\ IF currentUser[c] = Null \/ currentSession[c] = NoSession
     THEN /\ inbox' = Emit(inbox, c, Event("error: Not connected to session",
                                          Null, NoSession))
          /\ cm' = cm
     ELSE IF CommentLengthInvalid(len)
     THEN /\ inbox' = Emit(inbox, c, Event("error: Comment length invalid",
                                          Null, currentSession[c]))
          /\ cm' = cm
     ELSE /\ cm' = [cm EXCEPT ![c] = [pc |-> "count", cid |-> <<c, cmCount[c] + 1>>,
                                      hid |-> hid, uid |-> currentUser[c],
                                      parent |-> parent, len |-> len]]
          /\ inbox' = inbox
  /\ UNCHANGED <<extVars, bkVars, sessVars, comments, httpVars, progVars>>

\* the count query executes and its callback runs: the limit is checked and
\* the INSERT is issued
CommentCountDone(c) ==
  /\ cm[c].pc = "count"
  /\ IF CommentLimitReached(CommentCount(cm[c].hid))
     THEN /\ inbox' = Emit(inbox, c, Event("error: Comment limit reached",
                                          Null, currentSession[c]))
          /\ cm' = [cm EXCEPT ![c] = IdleCm]
     ELSE /\ cm' = [cm EXCEPT ![c].pc = "insert", ![c].uid = currentUser[c]]
          /\ inbox' = inbox
  /\ UNCHANGED <<extVars, bkVars, sessVars, comments, cmCount, httpVars, progVars>>

\* the count query fails and its callback runs with err
CommentCountFailed(c) ==
  /\ cm[c].pc = "count"
  /\ inbox' = Emit(inbox, c, Event("error: Comment limit reached",
                                   Null, currentSession[c]))
  /\ cm' = [cm EXCEPT ![c] = IdleCm]
  /\ UNCHANGED <<extVars, bkVars, sessVars, comments, cmCount, httpVars, progVars>>

\* the INSERT INTO comments (id, highlight_id, user_id, content, parent_id)
\* executes and its callback runs: on an error the client is told,
\* otherwise the comment is published
CommentInsertDone(c) ==
  /\ cm[c].pc = "insert"
  /\ LET row == [id |-> cm[c].cid, highlight_id |-> cm[c].hid,
                 user_id |-> cm[c].uid, username |-> Missing,
                 parent_id |-> cm[c].parent, len |-> cm[c].len]
         s == currentSession[c]
     IN IF NotNullOk(row)
        THEN /\ comments' = comments \cup {row}
             /\ inbox' = To(Emit(inbox, c, Event("comment-created", cm[c].cid, s)),
                            s, c, Event("comment-added", cm[c].cid, s))
        ELSE /\ comments' = comments
             /\ inbox' = Emit(inbox, c, Event("error: Failed to create comment",
                                              Null, s))
  /\ cm' = [cm EXCEPT ![c] = IdleCm]
  /\ UNCHANGED <<extVars, bkVars, sessVars, cmCount, httpVars, progVars>>

Respond(route, code) == responses (+) SetToBag({[route |-> route, status |-> code]})

\* POST /api/books/:bookId/comments: the required fields are checked (an
\* empty text counts as missing), the comment is inserted and returned
HttpPostComment(hid, len, fieldsOk) ==
  /\ CommentReqs < MaxCommentReqs
  /\ httpCount' = [httpCount EXCEPT !["comments"] = @ + 1]
  /\ IF ~fieldsOk \/ len = 0
     THEN /\ responses' = Respond("comments", 400)
          /\ comments' = comments
     ELSE /\ comments' = comments \cup
               {[id |-> <<0, httpCount["comments"] + 1>>, highlight_id |-> hid,
                 user_id |-> HttpProfile, username |-> HttpUsername,
                 parent_id |-> Null, len |-> len]}
          /\ responses' = Respond("comments", 200)
  /\ UNCHANGED <<extVars, bkVars, sessVars, inbox, cm, cmCount, progVars>>

\* POST /api/books/:bookId/highlights: the required fields are checked, the
\* highlight is inserted for the profile_id of the body and returned
HttpPostHighlight(book, profile, fieldsOk) ==
  /\ httpCount["highlights"] < MaxHighlightPosts
  /\ httpCount' = [httpCount EXCEPT !["highlights"] = @ + 1]
  /\ IF ~fieldsOk
     THEN /\ responses' = Respond("highlights", 400)
          /\ highlights' = highlights
     ELSE /\ highlights' = highlights \cup
               {[id |-> <<0, HighlightCount(profile, book) + 1>>, book_id |-> book,
                 user_id |-> profile, username |-> HttpUsername]}
          /\ responses' = Respond("highlights", 200)
  /\ UNCHANGED <<extVars, bkVars, sessions, users, pendingInc, pendingDec, status, rooms,
                 currentUser, currentSession, join, disc, hl, joinCount, hlCount,
                 inbox, cmVars, progVars>>

\* ------------------------------------------------------- update-progress
\* update-progress messages and progress POSTs received so far
ProgressReports == SumTo(progCount, NumConns) + httpCount["progress"]

ProgressEvent(c, pct) ==
  [kind |-> "user-progress-updated", id |-> currentUser[c],
   sid |-> currentSession[c], pct |-> pct]

\* the message arrives: unless the connection has not joined, the
\* percentage is forwarded to the other sockets of the room
UpdateProgress(c, pct) ==
  /\ status[c] = "open"
  /\ ProgressReports < MaxProgressReports
  /\ progCount' = [progCount EXCEPT ![c] = @ + 1]
  /\ inbox' = IF currentUser[c] = Null \/ currentSession[c] = NoSession
              THEN inbox
              ELSE To(inbox, currentSession[c], c, ProgressEvent(c, pct))
  /\ UNCHANGED <<extVars, bkVars, sessVars, cmVars, httpVars, user_progress, posts, reader, now>>

\* ------------------------------------------- POST /api/books/:id/progress
\* progressId = `${bookId}_${profile_id}`
ProgressId(book, profile) == <<book, profile>>

\* the request arrives: the required fields are checked and the
\* INSERT OR IGNORE is issued
PostProgress(cl, p, fieldsOk) ==
  /\ ProgressReports < MaxProgressReports
  /\ httpCount' = [httpCount EXCEPT !["progress"] = @ + 1]
  /\ IF ~fieldsOk
     THEN /\ responses' = Respond("progress", 400)
          /\ posts' = posts
     ELSE /\ posts' = posts \cup
               {[n |-> httpCount["progress"] + 1, cl |-> cl,
                 mount |-> IF cl \in Readers THEN reader[cl].mount ELSE 0,
                 id |-> ProgressId("b1", HttpProfile), progress |-> p,
                 sentAt |-> now, pc |-> "insert", inserted |-> FALSE]}
          /\ responses' = responses

\* a caller of the API other than the reader page
HttpPostProgress(p, fieldsOk) ==
  /\ PostProgress(ApiClient, p, fieldsOk)
  /\ UNCHANGED <<extVars, bkVars, sessVars, inbox, cmVars, user_progress, reader, now, progCount>>

\* the n-th request, while it is in flight
Post(n) == CHOOSE r \in posts : r.n = n
InFlight(n, pc) == \E r \in posts : r.n = n /\ r.pc = pc

\* ProgressInsertDone as it would be with INSERT OR REPLACE
ProgressInsertDoneReplacing(n) ==
  /\ InFlight(n, "insert")
  /\ LET r == Post(n) IN
     /\ user_progress' =
          {row \in user_progress : row.id # r.id} \cup
          {[id |-> r.id, progress |-> r.progress, created_at |-> now,
            last_updated |-> now]}
     /\ posts' = (posts \ {r}) \cup
                 {[r EXCEPT !.pc = "update",
                            !.inserted = ~\E row \in user_progress : row.id = r.id]}
  /\ UNCHANGED <<extVars, bkVars, sessVars, inbox, cmVars, httpVars, reader, now, progCount>>

\* the INSERT OR IGNORE executes and its callback issues the UPDATE
ProgressInsertDone(n) ==
  /\ InFlight(n, "insert")
  /\ LET r == Post(n) IN
     /\ user_progress' =
          IF \E row \in user_progress : row.id = r.id
          THEN user_progress
          ELSE user_progress \cup {[id |-> r.id, progress |-> r.progress,
                                    created_at |-> now, last_updated |-> now]}
     /\ posts' = (posts \ {r}) \cup
                 {[r EXCEPT !.pc = "update",
                            !.inserted = ~\E row \in user_progress : row.id = r.id]}
  /\ UNCHANGED <<extVars, bkVars, sessVars, inbox, cmVars, httpVars, reader, now, progCount>>

\* the UPDATE executes and its callback answers; the page that sent the
\* request, if still mounted, records the time of the request
ProgressUpdateDone(n) ==
  /\ InFlight(n, "update")
  /\ LET r == Post(n) IN
     /\ user_progress' =
          {IF row.id = r.id
           THEN [row EXCEPT !.progress = r.progress, !.last_updated = now]
           ELSE row : row \in user_progress}
     /\ posts' = posts \ {r}
     /\ reader' = IF r.cl \in Readers /\ reader[r.cl].mount = r.mount
                  THEN [reader EXCEPT ![r.cl].last = r.sentAt]
                  ELSE reader
  /\ responses' = Respond("progress", 200)
  /\ UNCHANGED <<extVars, bkVars, sessVars, inbox, cmVars, httpCount, now, progCount>>

\* ------------------------------------------------------------ EPUBReader
\* sendProgressUpdate: the listener's lastProgressUpdate decides
Throttled(cl) == now - reader[cl].seenLast < PROGRESS_UPDATE_THROTTLE

\* a scroll event at position p: updateReadingProgress compares with the
\* furthestProgress the listener captured, then sendProgressUpdate posts
Scroll(cl, p) ==
  /\ p > reader[cl].seenFurthest
  /\ reader' = [reader EXCEPT ![cl].furthest = p]
  /\ IF Throttled(cl)
     THEN UNCHANGED <<posts, httpVars>>
     ELSE PostProgress(cl, p, TRUE)
  /\ UNCHANGED <<extVars, bkVars, sessVars, inbox, cmVars, user_progress, now, progCount>>

\* the chapter changes: the effect attaches a listener that captures the
\* current state
ChangeChapter(cl) ==
  /\ reader' = [reader EXCEPT ![cl].seenFurthest = reader[cl].furthest,
                              ![cl].seenLast = reader[cl].last]
  /\ reader' # reader
  /\ UNCHANGED <<extVars, bkVars, sessVars, inbox, cmVars, httpVars, user_progress, posts, now,
                 progCount>>

Reloads == SumTo([cl \in Readers |-> reader[cl].mount], NumReaders)

\* the page is reloaded: the component state starts again from useState(0)
Reload(cl) ==
  /\ Reloads < MaxReloads
  /\ reader' = [reader EXCEPT ![cl] = FreshReader(reader[cl].mount + 1)]
  /\ UNCHANGED <<extVars, bkVars, sessVars, inbox, cmVars, httpVars, user_progress, posts, now,
                 progCount>>

\* time passes, one throttle period at a time
Tick ==
  /\ now < StartTime + MaxTicks * PROGRESS_UPDATE_THROTTLE
  /\ now' = now + PROGRESS_UPDATE_THROTTLE
  /\ UNCHANGED <<extVars, bkVars, sessVars, inbox, cmVars, httpVars, user_progress, posts, reader,
                 progCount>>

\* the intervals a client lets pass between two requests: 4, 10 and 31
\* minutes, on either side of ACTIVE_WINDOW_MS and of SESSION_TIMEOUT_MS
WaitSteps == {240000, 600000, 1860000}

\* time passes between two requests
Wait(ms) ==
  /\ got.waits < MaxWaits
  /\ now' = now + ms
  /\ got' = [got EXCEPT !.waits = @ + 1]
  /\ UNCHANGED <<sessVars, inbox, cmVars, httpVars, user_progress, posts, reader,
                 progCount, bkVars, ws, proc, cfg, auxVars>>

\* GET /api/books/:bookId/progress: the rows of the book WHERE last_updated >
\* datetime('now', '-5 minutes'); the clock values here are whole seconds,
\* as CURRENT_TIMESTAMP and datetime are
GetProgress(book) ==
  /\ got.n < MaxQueries
  /\ got' = [got EXCEPT !.n = @ + 1, !.route = "progress", !.status = 200,
                        !.users = {row \in user_progress :
                                     /\ row.id[1] = book
                                     /\ row.last_updated > now - ACTIVE_WINDOW_MS}]
  /\ UNCHANGED <<sessVars, inbox, cmVars, httpVars, progVars, bkVars, ws, proc, cfg, auxVars>>

\* GET /api/books/:bookId/progress/:userId: the row WHERE book_id = ? AND
\* user_id = ?, or 404 'User progress not found'
GetUserProgress(book, userId) ==
  /\ got.n < MaxQueries
  /\ LET found == {row \in user_progress : row.id = ProgressId(book, userId)} IN
     got' = [got EXCEPT !.n = @ + 1, !.route = "progress/:userId",
                        !.status = IF found = {} THEN 404 ELSE 200,
                        !.users = found]
  /\ UNCHANGED <<sessVars, inbox, cmVars, httpVars, progVars, bkVars, ws, proc, cfg, auxVars>>

\* ============================================== modular server: join-book
\* socket.emit and socket.to(room).emit of the modular server
BkEmit(ib, c, ev) == [ib EXCEPT ![c] = @ (+) SetToBag({ev})]
BkTo(ib, room, c, ev) ==
  [d \in BookConns |->
     IF d # c /\ room \in bookRooms[d] THEN ib[d] (+) SetToBag({ev}) ELSE ib[d]]

\* collaborationService.getActiveUsers(bookId)
GetActiveUsers(book) == {r \in activeUsers : r.book = book}

\* collaborationService.addUser(bookId, userId, username, socket.id): the
\* registry keeps one connection per (book, user)
AddUser(book, user, c) ==
  {r \in activeUsers : ~(r.book = book /\ r.user = user)}
    \cup {[book |-> book, user |-> user, socket |-> c]}

\* dbService.getHighlights(bookId), dbService.getUserHighlights(bookId, userId)
GetHighlights(book) == {h \in bookHighlights : h.book = book}
GetUserHighlights(book, user) == {h \in GetHighlights(book) : h.user = user}

\* the message arrives: the fields are checked, getBook is awaited
JoinBook(c, book, user, fieldsOk) ==
  /\ jb[c].pc = "idle"
  /\ bkCount["join-book"] < MaxBookJoins
  /\ bkCount' = [bkCount EXCEPT !["join-book"] = @ + 1]
  /\ IF ~fieldsOk
     THEN /\ bkInbox' = BkEmit(bkInbox, c, Event("error: Missing required fields",
                                                Null, book))
          /\ jb' = jb
     ELSE /\ jb' = [jb EXCEPT ![c] = [pc |-> "book", book |-> book, user |-> user,
                                      seen |-> {}]]
          /\ bkInbox' = bkInbox
  /\ UNCHANGED <<activeUsers, bookHighlights, bookRooms, ah>>
  /\ UNCHANGED <<sessVars, inbox, cmVars, httpVars, progVars, extVars>>

\* getBook resolves: an unknown book is an error, else getActiveUsers is awaited
JbBookDone(c) ==
  /\ jb[c].pc = "book"
  /\ IF jb[c].book \notin Books
     THEN /\ bkInbox' = BkEmit(bkInbox, c, Event("error: Book not found", Null,
                                                jb[c].book))
          /\ jb' = [jb EXCEPT ![c] = IdleJb]
     ELSE /\ jb' = [jb EXCEPT ![c].pc = "active"]
          /\ bkInbox' = bkInbox
  /\ UNCHANGED <<activeUsers, bookHighlights, bookRooms, ah, bkCount>>
  /\ UNCHANGED <<sessVars, inbox, cmVars, httpVars, progVars, extVars>>

\* getActiveUsers resolves: the limit is checked, the socket joins the room
\* and addUser is awaited
JbActiveDone(c) ==
  /\ jb[c].pc = "active"
  /\ IF UserLimitReached(Cardinality(GetActiveUsers(jb[c].book)))
     THEN /\ bkInbox' = BkEmit(bkInbox, c,
                              Event("error: Maximum users reached for this book",
                                    Null, jb[c].book))
          /\ jb' = [jb EXCEPT ![c] = IdleJb]
          /\ bookRooms' = bookRooms
     ELSE /\ bookRooms' = [bookRooms EXCEPT ![c] = @ \cup {jb[c].book}]
          /\ jb' = [jb EXCEPT ![c].pc = "add"]
          /\ bkInbox' = bkInbox
  /\ UNCHANGED <<activeUsers, bookHighlights, ah, bkCount>>
  /\ UNCHANGED <<sessVars, inbox, cmVars, httpVars, progVars, extVars>>

\* addUser resolves: the others are notified, getActiveUsers is awaited
JbAddDone(c) ==
  /\ jb[c].pc = "add"
  /\ activeUsers' = AddUser(jb[c].book, jb[c].user, c)
  /\ bkInbox' = BkTo(bkInbox, jb[c].book, c,
                     Event("user-joined", jb[c].user, jb[c].book))
  /\ jb' = [jb EXCEPT ![c].pc = "users"]
  /\ UNCHANGED <<bookHighlights, bookRooms, ah, bkCount>>
  /\ UNCHANGED <<sessVars, inbox, cmVars, httpVars, progVars, extVars>>

\* getActiveUsers resolves: the list is sent, getHighlights is awaited
JbUsersDone(c) ==
  /\ jb[c].pc = "users"
  /\ bkInbox' = BkEmit(bkInbox, c, Event("users-list", jb[c].user, jb[c].book))
  /\ jb' = [jb EXCEPT ![c].pc = "highlights"]
  /\ UNCHANGED <<activeUsers, bookHighlights, bookRooms, ah, bkCount>>
  /\ UNCHANGED <<sessVars, inbox, cmVars, httpVars, progVars, extVars>>

\* getHighlights resolves, getComments is awaited
JbHighlightsDone(c) ==
  /\ jb[c].pc = "highlights"
  /\ jb' = [jb EXCEPT ![c].pc = "comments",
                      ![c].seen = {h.id : h \in GetHighlights(jb[c].book)}]
  /\ UNCHANGED <<activeUsers, bookHighlights, bookRooms, ah, bkCount, bkInbox>>
  /\ UNCHANGED <<sessVars, inbox, cmVars, httpVars, progVars, extVars>>

\* getComments resolves: the existing data are sent
JbCommentsDone(c) ==
  /\ jb[c].pc = "comments"
  /\ bkInbox' = BkEmit(bkInbox, c,
                       [kind |-> "existing-data", id |-> Null, sid |-> jb[c].book,
                        highlights |-> jb[c].seen])
  /\ jb' = [jb EXCEPT ![c] = IdleJb]
  /\ UNCHANGED <<activeUsers, bookHighlights, bookRooms, ah, bkCount>>
  /\ UNCHANGED <<sessVars, inbox, cmVars, httpVars, progVars, extVars>>

\* ========================================== modular server: add-highlight
\* the message arrives: the fields are checked, getUserHighlights is awaited
AddHighlight(c, book, user, fieldsOk) ==
  /\ ah[c].pc = "idle"
  /\ bkCount["add-highlight"] < MaxBookHighlights
  /\ bkCount' = [bkCount EXCEPT !["add-highlight"] = @ + 1]
  /\ IF ~fieldsOk
     THEN /\ bkInbox' = BkEmit(bkInbox, c,
                              Event("error: Missing required fields for highlight",
                                    Null, book))
          /\ ah' = ah
     ELSE /\ ah' = [ah EXCEPT ![c] = [pc |-> "count", book |-> book, user |-> user]]
          /\ bkInbox' = bkInbox
  /\ UNCHANGED <<activeUsers, bookHighlights, bookRooms, jb>>
  /\ UNCHANGED <<sessVars, inbox, cmVars, httpVars, progVars, extVars>>

\* getUserHighlights resolves: the limit is checked, addHighlight is awaited
AhCountDone(c) ==
  /\ ah[c].pc = "count"
  /\ IF Cardinality(GetUserHighlights(ah[c].book, ah[c].user)) >= MAX_PER_USER_PER_BOOK
     THEN /\ bkInbox' = BkEmit(bkInbox, c, Event("error: Maximum highlights reached",
                                                Null, ah[c].book))
          /\ ah' = [ah EXCEPT ![c] = IdleAh]
     ELSE /\ ah' = [ah EXCEPT ![c].pc = "add"]
          /\ bkInbox' = bkInbox
  /\ UNCHANGED <<activeUsers, bookHighlights, bookRooms, jb, bkCount>>
  /\ UNCHANGED <<sessVars, inbox, cmVars, httpVars, progVars, extVars>>

\* dbService.addHighlight stores the highlight under a new id
NewHighlight(book, user) ==
  [id |-> Cardinality(bookHighlights) + 1, book |-> book, user |-> user]

\* addHighlight resolves: the room without the sender is sent
\* highlight-added, the sender highlight-confirmed
AhAddDone(c) ==
  /\ ah[c].pc = "add"
  /\ LET h == NewHighlight(ah[c].book, ah[c].user)
     IN /\ bookHighlights' = bookHighlights \cup {h}
        /\ bkInbox' = BkEmit(BkTo(bkInbox, ah[c].book, c,
                                  Event("highlight-added", h.id, ah[c].book)),
                             c, Event("highlight-confirmed", h.id, ah[c].book))
  /\ ah' = [ah EXCEPT ![c] = IdleAh]
  /\ UNCHANGED <<activeUsers, bookRooms, jb, bkCount>>
  /\ UNCHANGED <<sessVars, inbox, cmVars, httpVars, progVars, extVars>>

\* ======================================= client: setupWebSocketLimits
\* socket.on('disconnect'): below the limit a timer is set, else the error
\* is emitted
WsDisconnect ==
  /\ ws.connected
  /\ ws.disconnects < MaxDisconnects
  /\ IF ws.reconnectAttempts < RECONNECTION_ATTEMPTS
     THEN ws' = [ws EXCEPT !.connected = FALSE, !.disconnects = @ + 1,
                           !.timers = @ + 1]
     ELSE ws' = [ws EXCEPT !.connected = FALSE, !.disconnects = @ + 1,
                           !.errors = @ + 1]
  /\ UNCHANGED <<sessVars, inbox, cmVars, httpVars, progVars, bkVars, proc, cfg, got, auxVars>>

\* a timer set by the disconnect handler fires: socket.connect() and
\* reconnectAttempts++; the connection attempt succeeds or not
WsTimer ==
  /\ ws.timers > 0
  /\ \E ok \in BOOLEAN :
       ws' = [ws EXCEPT !.timers = @ - 1, !.reconnectAttempts = @ + 1,
                        !.connected = @ \/ ok]
  /\ UNCHANGED <<sessVars, inbox, cmVars, httpVars, progVars, bkVars, proc, cfg, got, auxVars>>

\* the socket is connected again before the timer has fired: the Socket.io
\* manager reconnects a lost transport on its own
WsReconnected ==
  /\ ~ws.connected
  /\ ws.timers > 0
  /\ ws' = [ws EXCEPT !.connected = TRUE]
  /\ UNCHANGED <<sessVars, inbox, cmVars, httpVars, progVars, bkVars, proc, cfg, got, auxVars>>

\* ================================================== malformed messages
\* the messages and the payloads they are sent with: none at all, or an
\* object without the fields the handler reads
Messages == {"join-session", "create-comment", "create-highlight"}
Payloads == {"undefined", "empty"}

Running == proc.state = "running"

\* what an exception thrown by a handler does to the process: thrown in a
\* plain listener it is uncaught and ends the process; thrown in the async
\* join-session listener it is an unhandled rejection, which ends the
\* process or not with the version of node
Thrown(msg) ==
  IF msg = "join-session" THEN {"crashed", "running"} ELSE {"crashed"}

\* the handler reaches a statement that throws a TypeError:
\* const { sessionId } = data with no data (join-session, before the try);
\* const { ... } = data with no data, and content.length with no content,
\* both behind the check of currentUser and currentSession
Throws(c, msg, payload) ==
  CASE msg = "join-session" -> payload = "undefined"
    [] msg = "create-comment" ->
         currentUser[c] # Null /\ currentSession[c] # NoSession
    [] msg = "create-highlight" ->
         currentUser[c] # Null /\ currentSession[c] # NoSession
           /\ payload = "undefined"

\* a malformed message arrives on the socket of connection c and its
\* handler runs up to the first await or callback
MalformedMessage(c, msg, payload) ==
  /\ Running
  /\ status[c] = "open"
  /\ proc.malformed < MaxMalformed
  /\ ~(msg = "join-session" /\ payload = "empty")
  /\ ~(msg = "create-highlight" /\ payload = "empty" /\ currentUser[c] # Null
        /\ currentSession[c] # NoSession)
  /\ IF Throws(c, msg, payload)
     THEN /\ \E st \in Thrown(msg) :
               proc' = [state |-> st, malformed |-> proc.malformed + 1]
          /\ inbox' = inbox
     ELSE /\ proc' = [proc EXCEPT !.malformed = @ + 1]
          /\ inbox' = Emit(inbox, c, Event("error: Not connected to session",
                                          Null, NoSession))
  /\ UNCHANGED <<sessVars, cmVars, httpVars, progVars, bkVars, ws, cfg, got, auxVars>>

Next ==
  \/ \E c \in Conns : Connect(c)
  \/ \E c \in Conns, sid \in Sessions \cup {UnknownSession} :
       JoinSession(c, sid, MaxJoinReqs)
  \/ \E c \in Conns : JoinGetDone(c)
  \/ \E c \in Conns : JoinInsertDone(c)
  \/ \E c \in Conns : JoinUsersDone(c)
  \/ \E s \in Sessions : ApplyInc(s)
  \/ \E c \in Conns : Disconnect(c)
  \/ \E c \in Conns : DisconnectDeleteDone(c)
  \/ \E s \in Sessions : ApplyDec(s)

\* joins and disconnects of the connections of one server
Spec == Init /\ [][Next]_vars

\* one more join, carrying a participant id or not, among disconnects
RcNext ==
  \/ \E c \in Conns : Connect(c)
  \/ \E c \in Conns, sid \in Sessions : JoinSession(c, sid, MaxRejoinReqs)
  \/ \E c \in Conns : JoinGetDone(c)
  \/ \E c \in Conns : JoinInsertDone(c)
  \/ \E c \in Conns : JoinUsersDone(c)
  \/ \E s \in Sessions : ApplyInc(s)
  \/ \E c \in Conns : Disconnect(c)
  \/ \E c \in Conns : DisconnectDeleteDone(c)
  \/ \E s \in Sessions : ApplyDec(s)

RcSpec == Init /\ [][RcNext]_vars

\* ------------------------------------------------------- quota checks
\* LIMIT_VALIDATORS: const limits = getCurrentLimits(), which is the
\* configuration of environment = 'production'; return count < limits...
validateUserCount(currentUserCount) ==
  /\ cfg' = [cfg EXCEPT !.check =
               [limit |-> "MAX_CONCURRENT_PER_SESSION", count |-> currentUserCount,
                result |-> currentUserCount <
                             getCurrentLimits("production").MAX_CONCURRENT_PER_SESSION]]
  /\ UNCHANGED <<sessVars, inbox, cmVars, httpVars, progVars, bkVars, ws, proc, got, auxVars>>

validateHighlightCount(userHighlightCount) ==
  /\ cfg' = [cfg EXCEPT !.check =
               [limit |-> "MAX_PER_USER_PER_BOOK", count |-> userHighlightCount,
                result |-> userHighlightCount <
                             getCurrentLimits("production").MAX_PER_USER_PER_BOOK]]
  /\ UNCHANGED <<sessVars, inbox, cmVars, httpVars, progVars, bkVars, ws, proc, got, auxVars>>

validateCommentCount(highlightCommentCount) ==
  /\ cfg' = [cfg EXCEPT !.check =
               [limit |-> "MAX_PER_HIGHLIGHT", count |-> highlightCommentCount,
                result |-> highlightCommentCount <
                             getCurrentLimits("production").MAX_PER_HIGHLIGHT]]
  /\ UNCHANGED <<sessVars, inbox, cmVars, httpVars, progVars, bkVars, ws, proc, got, auxVars>>

\* upgradeToPhase as it would be if the merge wrote into its target,
\* MVP_LIMITS, instead of into a copy
upgradeToPhaseInPlace(phaseName) ==
  /\ IF phaseName \notin DOMAIN tables.SCALING_PHASES
     THEN cfg' = [cfg EXCEPT !.thrown = TRUE] /\ tables' = tables
     ELSE LET merged == deepMerge(tables.MVP_LIMITS, tables.SCALING_PHASES[phaseName])
          IN /\ cfg' = [cfg EXCEPT !.thrown = FALSE, !.phase = phaseName,
                                   !.newLimits = merged]
             /\ tables' = [tables EXCEPT !.MVP_LIMITS = merged]
  /\ UNCHANGED <<sessVars, inbox, cmVars, httpVars, progVars, bkVars, ws, proc, got,
                 rl, book_profiles, profileReqs>>

\* upgradeToPhase(phaseName): throws on an unknown phase, otherwise merges
\* the phase into MVP_LIMITS, logs and returns the result
upgradeToPhase(phaseName) ==
  /\ IF phaseName \notin DOMAIN tables.SCALING_PHASES
     THEN cfg' = [cfg EXCEPT !.thrown = TRUE]
     ELSE cfg' = [cfg EXCEPT !.thrown = FALSE, !.phase = phaseName,
                             !.newLimits = deepMerge(tables.MVP_LIMITS,
                                                     tables.SCALING_PHASES[phaseName])]
  /\ UNCHANGED <<sessVars, inbox, cmVars, httpVars, progVars, bkVars, ws, proc, got, auxVars>>

\* getEnvironmentConfig: const limits = getCurrentLimits(environment)
getEnvironmentConfig(environment) ==
  /\ cfg' = [cfg EXCEPT !.config = [environment |-> environment,
                                    limits |-> getCurrentLimits(environment)]]
  /\ UNCHANGED <<sessVars, inbox, cmVars, httpVars, progVars, bkVars, ws, proc, got, auxVars>>

\* validator calls and upgrades; PHASE_4 is a phase SCALING_PHASES does not have
QuotaNext ==
  \/ \E count \in Counts : validateUserCount(count)
  \/ \E count \in Counts : validateHighlightCount(count)
  \/ \E count \in Counts : validateCommentCount(count)
  \/ \E phaseName \in DOMAIN SCALING_PHASES \cup {"PHASE_4"} : upgradeToPhase(phaseName)
  \/ \E environment \in DOMAIN ENVIRONMENT_OVERRIDES : getEnvironmentConfig(environment)

QuotaSpec == QuotaInit /\ [][QuotaNext]_vars

\* ---------------------------------------- POST /api/books/:id/profiles
\* the documents profiles are created for
ProfileBooks == {"b1", "b2"}
\* a username is the sequence of its characters
LongName == [i \in 1..(MAX_USERNAME_LENGTH + 1) |-> "a"]
Usernames == {<<"a">>, <<" ", "a", " ">>, <<" ">>, LongName}

\* username.trim()
RECURSIVE trim(_)
trim(u) ==
  IF u = <<>> THEN u
  ELSE IF Head(u) = " " THEN trim(Tail(u))
  ELSE IF u[Len(u)] = " " THEN trim(SubSeq(u, 1, Len(u) - 1))
  ELSE u

\* the request arrives: the username is checked and the INSERT with
\* username.trim() is issued; arrived is the arrival number
PostProfile(book, username) ==
  /\ Cardinality(profileReqs) < MaxProfileReqs
  /\ LET n == Cardinality(profileReqs) + 1
         bad == Len(trim(username)) = 0 \/ Len(username) > MAX_USERNAME_LENGTH
     IN profileReqs' = profileReqs \cup
          {[arrived |-> n, book |-> book, username |-> trim(username),
            pc |-> IF bad THEN "done" ELSE "insert",
            status |-> IF bad THEN 400 ELSE 0, answeredAt |-> IF bad THEN n ELSE 0]}
  /\ UNCHANGED <<sessVars, inbox, cmVars, httpVars, progVars, bkVars, ws, proc, cfg, got,
                 rl, book_profiles, tables>>

\* ProfileInsertDone as it would be without UNIQUE(book_id, username)
ProfileInsertDoneNoUnique(n) ==
  /\ \E r \in profileReqs : r.arrived = n /\ r.pc = "insert"
  /\ LET r == CHOOSE q \in profileReqs : q.arrived = n IN
     /\ book_profiles' = book_profiles \cup
          {[id |-> n, book_id |-> r.book, username |-> r.username]}
     /\ profileReqs' = (profileReqs \ {r}) \cup
          {[r EXCEPT !.pc = "done", !.status = 200,
                     !.answeredAt = Cardinality(profileReqs)]}
  /\ UNCHANGED <<sessVars, inbox, cmVars, httpVars, progVars, bkVars, ws, proc, cfg, got, rl, tables>>

\* the INSERT executes and its callback answers: UNIQUE(book_id, username)
\* refuses a second row and the answer is 409, otherwise the profile is
\* returned; answeredAt is the number of requests that have arrived by then
ProfileInsertDone(n) ==
  /\ \E r \in profileReqs : r.arrived = n /\ r.pc = "insert"
  /\ LET r == CHOOSE q \in profileReqs : q.arrived = n
         taken == \E row \in book_profiles :
                    row.book_id = r.book /\ row.username = r.username
     IN
     /\ book_profiles' =
          IF taken THEN book_profiles
          ELSE book_profiles \cup {[id |-> n, book_id |-> r.book, username |-> r.username]}
     /\ profileReqs' = (profileReqs \ {r}) \cup
          {[r EXCEPT !.pc = "done", !.status = IF taken THEN 409 ELSE 200,
                     !.answeredAt = Cardinality(profileReqs)]}
  /\ UNCHANGED <<sessVars, inbox, cmVars, httpVars, progVars, bkVars, ws, proc, cfg, got, rl, tables>>

PfNext ==
  \/ \E b \in ProfileBooks, u \in Usernames : PostProfile(b, u)
  \/ \E n \in 1..MaxProfileReqs : ProfileInsertDone(n)

PfSpec == Init /\ [][PfNext]_vars

\* ------------------------------------------------------- rate limiting
\* socket.on('message'): the counter is reset when a second has passed
\* since lastReset, then counted; above the ceiling the socket is told,
\* otherwise processMessage(data) runs
Message ==
  /\ rl.received < MaxMessages
  /\ LET reset == rl.now - rl.lastReset >= RATE_WINDOW_MS
         count == (IF reset THEN 0 ELSE rl.messageCount) + 1
         last == IF reset THEN rl.now ELSE rl.lastReset
     IN rl' = IF count > MAX_MESSAGES_PER_SECOND
              THEN [rl EXCEPT !.messageCount = count, !.lastReset = last,
                              !.received = @ + 1, !.errors = @ + 1]
              ELSE [rl EXCEPT !.messageCount = count, !.lastReset = last,
                              !.received = @ + 1, !.processed[rl.now] = @ + 1]
  /\ UNCHANGED <<sessVars, inbox, cmVars, httpVars, progVars, bkVars, ws, proc, cfg, got, book_profiles, profileReqs, tables>>

\* Date.now() advances
RateTick ==
  /\ rl.now + RateStep \in RateTimes
  /\ rl' = [rl EXCEPT !.now = @ + RateStep]
  /\ UNCHANGED <<sessVars, inbox, cmVars, httpVars, progVars, bkVars, ws, proc, cfg, got, book_profiles, profileReqs, tables>>

RlNext == Message \/ RateTick
RlSpec == Init /\ [][RlNext]_vars

\* the reconnection set-up of one client socket
WsNext == WsDisconnect \/ WsTimer \/ WsReconnected
WsSpec == Init /\ [][WsNext]_vars

\* the joined connections HlConns, with annotation traffic
HlConns == 1..NumHlConns
HlNext ==
  \/ \E c \in HlConns, sid \in Sessions :
       JoinSession(c, sid, MaxHlJoinReqs)
  \/ \E c \in HlConns : JoinGetDone(c)
  \/ \E c \in HlConns : JoinInsertDone(c)
  \/ \E c \in HlConns : JoinUsersDone(c)
  \/ \E s \in Sessions : ApplyInc(s)
  \/ \E c \in HlConns : Disconnect(c)
  \/ \E c \in HlConns : DisconnectDeleteDone(c)
  \/ \E s \in Sessions : ApplyDec(s)
  \/ \E c \in HlConns, b \in Books : CreateHighlight(c, b)
  \/ \E c \in HlConns : HighlightCountDone(c)
  \/ \E c \in HlConns : HighlightInsertDone(c)

HlSpec == Init /\ [][HlNext]_vars


\* comment traffic of the joined connections and of HTTP clients
CmNext ==
  \/ \E c \in Conns : Connect(c)
  \/ \E c \in Conns, h \in HighlightIds, len \in Lengths, parent \in ParentIds :
       CreateComment(c, h, len, parent)
  \/ \E c \in Conns : CommentCountDone(c)
  \/ \E c \in Conns : CommentInsertDone(c)
  \/ \E h \in HighlightIds \cup {NoHighlight}, len \in HttpLengths, ok \in BOOLEAN :
       HttpPostComment(h, len, ok)

CmSpec == Init /\ [][CmNext]_vars

\* comment traffic and malformed messages, as long as the process runs
LiveConnect(c) == Running /\ Connect(c)
LiveCreateComment(c, h, len, parent) == Running /\ CreateComment(c, h, len, parent)
LiveCommentCountDone(c) == Running /\ CommentCountDone(c)
LiveCommentInsertDone(c) == Running /\ CommentInsertDone(c)

MfNext ==
  \/ \E c \in Conns : LiveConnect(c)
  \/ \E c \in Conns, h \in HighlightIds, len \in Lengths, parent \in ParentIds :
       LiveCreateComment(c, h, len, parent)
  \/ \E c \in Conns : LiveCommentCountDone(c)
  \/ \E c \in Conns : LiveCommentInsertDone(c)
  \/ \E c \in Conns, msg \in Messages, payload \in Payloads :
       MalformedMessage(c, msg, payload)

MfSpec == Init /\ [][MfNext]_vars

\* comments of every length on both creation paths
LenNext ==
  \/ \E c \in Conns, h \in HighlightIds, len \in Lengths :
       CreateComment(c, h, len, Null)
  \/ \E c \in Conns : CommentCountDone(c)
  \/ \E c \in Conns : CommentInsertDone(c)
  \/ \E h \in HighlightIds, len \in Lengths : HttpPostComment(h, len, TRUE)

LenSpec == Init /\ [][LenNext]_vars

\* highlights and comments created over the sockets
AnNext ==
  \/ \E c \in HlConns, b \in Books : CreateHighlight(c, b)
  \/ \E c \in HlConns : HighlightCountDone(c)
  \/ \E c \in HlConns : HighlightInsertDone(c)
  \/ \E c \in HlConns, h \in HighlightIds, len \in Lengths, parent \in ParentIds :
       CreateComment(c, h, len, parent)
  \/ \E c \in HlConns : CommentCountDone(c)
  \/ \E c \in HlConns : CommentInsertDone(c)

AnSpec == Init /\ [][AnNext]_vars

\* top-level highlights and comments of valid length, with a database
\* whose count queries may fail
ErNext ==
  \/ \E c \in HlConns, b \in Books : CreateHighlight(c, b)
  \/ \E c \in HlConns : HighlightCountDone(c)
  \/ \E c \in HlConns : HighlightCountFailed(c)
  \/ \E c \in HlConns : HighlightInsertDone(c)
  \/ \E c \in HlConns, h \in HighlightIds : CreateComment(c, h, MIN_LENGTH_CHARS, Null)
  \/ \E c \in HlConns : CommentCountDone(c)
  \/ \E c \in HlConns : CommentCountFailed(c)
  \/ \E c \in HlConns : CommentInsertDone(c)

ErSpec == Init /\ [][ErNext]_vars

\* the connections that Init has not joined: they connect, join, and send
\* annotations and progress before, during and after their join
NjNext ==
  \/ \E c \in Conns \ Joined : Connect(c)
  \/ \E c \in Conns \ Joined, sid \in Sessions : JoinSession(c, sid, MaxRejoinReqs)
  \/ \E c \in Conns \ Joined : JoinGetDone(c)
  \/ \E c \in Conns \ Joined : JoinInsertDone(c)
  \/ \E c \in Conns \ Joined : JoinUsersDone(c)
  \/ \E s \in Sessions : ApplyInc(s)
  \/ \E c \in Conns \ Joined, b \in Books : CreateHighlight(c, b)
  \/ \E c \in Conns \ Joined : HighlightCountDone(c)
  \/ \E c \in Conns \ Joined : HighlightInsertDone(c)
  \/ \E c \in Conns \ Joined, h \in HighlightIds :
       CreateComment(c, h, MIN_LENGTH_CHARS, Null)
  \/ \E c \in Conns \ Joined : CommentCountDone(c)
  \/ \E c \in Conns \ Joined : CommentInsertDone(c)
  \/ \E c \in Conns \ Joined, pct \in Positions : UpdateProgress(c, pct)

NjSpec == Init /\ [][NjNext]_vars

\* highlights created over the sockets and over HTTP
HqNext ==
  \/ \E c \in HlConns, b \in Books : CreateHighlight(c, b)
  \/ \E c \in HlConns : HighlightCountDone(c)
  \/ \E c \in HlConns : HighlightInsertDone(c)
  \/ \E b \in Books, ok \in BOOLEAN : HttpPostHighlight(b, HttpProfile, ok)

HqSpec == Init /\ [][HqNext]_vars

\* joins while highlights are stored
RpNext ==
  \/ \E c \in Conns : Connect(c)
  \/ \E c \in Conns, sid \in Sessions : JoinSession(c, sid, MaxJoinReqs)
  \/ \E c \in Conns : JoinGetDone(c)
  \/ \E c \in Conns : JoinInsertDone(c)
  \/ \E c \in Conns : JoinUsersDone(c)
  \/ \E s \in Sessions : ApplyInc(s)
  \/ \E b \in Books, ok \in BOOLEAN : HttpPostHighlight(b, HttpProfile, ok)

RpSpec == Init /\ [][RpNext]_vars

\* the modular server: joins of a book and highlights
UnknownBook == "bX"
BkNext ==
  \/ \E c \in BookConns, b \in Books \cup {UnknownBook}, u \in BookUsers,
        ok \in BOOLEAN : JoinBook(c, b, u, ok)
  \/ \E c \in BookConns : JbBookDone(c)
  \/ \E c \in BookConns : JbActiveDone(c)
  \/ \E c \in BookConns : JbAddDone(c)
  \/ \E c \in BookConns : JbUsersDone(c)
  \/ \E c \in BookConns : JbHighlightsDone(c)
  \/ \E c \in BookConns : JbCommentsDone(c)
  \/ \E c \in BookConns, b \in Books, u \in BookUsers, ok \in BOOLEAN :
       AddHighlight(c, b, u, ok)
  \/ \E c \in BookConns : AhCountDone(c)
  \/ \E c \in BookConns : AhAddDone(c)

BkSpec == Init /\ [][BkNext]_vars

\* progress reports: over the sockets, from the reader pages and over HTTP
ProgNext ==
  \/ \E c \in Conns : Connect(c)
  \/ \E c \in Conns, pct \in Positions : UpdateProgress(c, pct)
  \/ \E p \in Positions, ok \in BOOLEAN : HttpPostProgress(p, ok)
  \/ \E n \in 1..MaxProgressReports : ProgressInsertDone(n)
  \/ \E n \in 1..MaxProgressReports : ProgressUpdateDone(n)
  \/ \E cl \in Readers, p \in Positions : Scroll(cl, p)
  \/ \E cl \in Readers : ChangeChapter(cl)
  \/ \E cl \in Readers : Reload(cl)
  \/ Tick

ProgSpec == Init /\ [][ProgNext]_vars

\* progress stored over HTTP and read back after a while
RosterNext ==
  \/ \E p \in Positions, ok \in BOOLEAN : HttpPostProgress(p, ok)
  \/ \E n \in 1..MaxProgressReports : ProgressInsertDone(n)
  \/ \E n \in 1..MaxProgressReports : ProgressUpdateDone(n)
  \/ \E ms \in WaitSteps : Wait(ms)
  \/ \E b \in Books : GetProgress(b)
  \/ \E b \in Books, u \in {HttpProfile, Null} : GetUserProgress(b, u)

RosterSpec == Init /\ [][RosterNext]_vars

\* the database runs every statement it was given and the clock advances;
\* what the clients send is up to them
ProgFairSpec ==
  /\ ProgSpec
  /\ \A n \in 1..MaxProgressReports :
       WF_vars(ProgressInsertDone(n)) /\ WF_vars(ProgressUpdateDone(n))
  /\ WF_vars(Tick)

\* ======================================================================
\* Session registry: admission, count and roster, reclaim
\* ======================================================================
NothingPending == \A s \in Sessions : pendingInc[s] = 0 /\ pendingDec[s] = 0

\* C1: in every reachable state the participant count (user_count) of every
\* session is at most MAX_CONCURRENT_PER_SESSION.
C1_CountWithinLimit ==
  \A s \in Sessions : sessions[s] <= MAX_CONCURRENT_PER_SESSION

\* joins that passed the limit check and whose INSERT is still to run
Passed(s) == {c \in Conns : join[c].pc = "insert" /\ join[c].sid = s}

\* session-full errors delivered for session s
Rejected(s) ==
  LET full(c) == Received(c, Event("error: Session is full", Null, s))
  IN SumTo([c \in Conns |-> full(c)], NumConns)

JoinsSettled ==
  /\ \A c \in Conns : status[c] # "closed" /\ join[c].pc = "idle"
  /\ NothingPending

\* C2: of N join requests in flight for a session with K < N free slots
\* exactly K are admitted and N-K rejected: the joins that passed the check
\* never outnumber the free slots, and once the requests have completed
\* (nobody having left) exactly K participants were added.
C2_AtomicAdmission ==
  \A s \in Sessions :
    LET K == MAX_CONCURRENT_PER_SESSION - StartCount(s)
        admitted == Cardinality(Roster(s)) - StartCount(s)
        N == admitted + Rejected(s)
    IN /\ Cardinality(Roster(s)) + Cardinality(Passed(s))
            <= MAX_CONCURRENT_PER_SESSION
       /\ (JoinsSettled /\ K < N) => (admitted = K /\ Rejected(s) = N - K)

\* C3: in every reachable state user_count of a session equals the number
\* of rows of users for the session, the states between a user insert or
\* delete and the count update included.
C3_CountEqualsRoster ==
  \A s \in Sessions : sessions[s] = Cardinality(Roster(s))

\* the handlers of a closed connection have all run to completion
Reclaimed(c) ==
  /\ status[c] = "closed"
  /\ join[c].pc = "idle"
  /\ disc[c].pc = "done"
  /\ NothingPending

\* C4: a connection that closed while its join was still suspended (the
\* disconnect handler found no current user) leaves, once its handlers have
\* completed, no participant of its own in the roster.
C4_NoLeakedSlot ==
  \A c \in Conns :
    (Reclaimed(c) /\ joinCount[c] > 0 /\ disc[c].uid = Null)
      => \A u \in users : u.id[1] # c

\* C5: a joined participant whose transport closed is removed from the
\* roster (every participant the connection had joined before it closed),
\* the count is decremented by exactly one, and every participant remaining
\* in the session receives user-left for it exactly once.
C5_DisconnectReclaim ==
  /\ [](\A c \in Conns :
          (Reclaimed(c) /\ disc[c].uid # Null)
            => \A u \in users : ~(u.id[1] = c /\ u.id[2] <= disc[c].uid[2]))
  /\ [][\A c \in Conns :
          (disc[c].pc = "delete" /\ disc'[c].pc = "done")
            => LET s == currentSession[c]
                   left == Event("user-left", disc[c].uid, s)
               IN /\ pendingDec'[s] = pendingDec[s] + 1
                  /\ \A d \in Conns \ {c} :
                       CopiesIn(left, inbox'[d]) =
                         IF status[d] = "open" /\ currentSession[d] = s
                         THEN 1 ELSE CopiesIn(left, inbox[d])]_vars

\* the whole effect of the disconnect handler on the tables
LeaveEffect(db, cu, cs) ==
  IF cu # Null /\ cs # NoSession
  THEN [users |-> DeleteUser(db.users, cu),
        sessions |-> DecrementCount(db.sessions, cs)]
  ELSE db

HlKinds == {"highlight-created", "highlight-added"}

\* a highlight event is never delivered twice; the confirmation only reaches
\* the connection that created the highlight, the broadcast never does
HlEventsOnce ==
  \A d \in Conns : \A ev \in BagToSet(inbox[d]) :
    ev.kind \in HlKinds =>
      /\ CopiesIn(ev, inbox[d]) = 1
      /\ (ev.kind = "highlight-created") <=> (ev.id[1] = d)

\* the step that completes a create-highlight of connection c that passed
\* the joined and the quota check: its INSERT and the callback
HlPublished(c) == hl[c].pc = "insert" /\ hl'[c].pc = "idle"

\* what the publishing step delivers, given how many confirmations the
\* originator is to receive
HlDelivery(c, confirmations) ==
  LET s == currentSession[c]
      created == Event("highlight-created", hl[c].hid, s)
      added == Event("highlight-added", hl[c].hid, s)
  IN /\ CopiesIn(created, inbox'[c]) = confirmations
     /\ CopiesIn(added, inbox'[c]) = 0
     /\ \A d \in Conns \ {c} :
          (status[d] = "open" /\ currentSession[d] = s)
            => /\ CopiesIn(added, inbox'[d]) = 1
               /\ CopiesIn(created, inbox'[d]) = 0

JoinCompleted(c) ==
  join[c].pc = "users" /\ join'[c].pc = "idle" /\ status[c] = "open"

\* connection c has been shown highlight h: by a highlight-added broadcast
\* or in a full-state replay
ObservedIn(ib, c, h) ==
  \E ev \in BagToSet(ib[c]) :
    \/ ev.kind = "highlight-added" /\ ev.id = h.id
    \/ ev.kind = "existing-data" /\ h.id \in ev.highlights

\* C13: when a join completes, the joining connection has received the
\* roster and has been shown every highlight stored by then, in the replay
\* or in a highlight-added broadcast.
C13_JoinReplay ==
  [][\A c \in Conns :
       JoinCompleted(c) =>
         /\ Delivered(c, Event("session-users", join[c].uid, join[c].sid))
         /\ \A h \in highlights' : ObservedIn(inbox', c, h)]_vars

\* ======================================================================
\* Broadcast router: at-most-once delivery
\* ======================================================================
\* how many times connection c has been shown the highlight with this id
TimesShown(c, hid) ==
  LET shows(ev) == \/ ev.kind = "highlight-added" /\ ev.id = hid
                   \/ ev.kind = "existing-data" /\ hid \in ev.highlights
      RECURSIVE Sum(_)
      Sum(S) == IF S = {} THEN 0
                ELSE LET ev == CHOOSE x \in S : TRUE
                     IN CopiesIn(ev, bkInbox[c]) + Sum(S \ {ev})
  IN Sum({ev \in BagToSet(bkInbox[c]) : shows(ev)})

\* C14: no recipient observes the same highlight twice, in the join replay
\* and again as a highlight-added broadcast.
C14_AtMostOnce ==
  \A c \in BookConns : \A h \in bookHighlights : TimesShown(c, h.id) <= 1

\* ======================================================================
\* Quota enforcer: comments per highlight
\* ======================================================================
LimitErrors ==
  LET e(c) == Received(c, Event("error: Comment limit reached", Null, currentSession[c]))
  IN SumTo([c \in Conns |-> e(c)], NumConns)

\* C10: the number of comments stored for one highlight never exceeds
\* MAX_PER_HIGHLIGHT, and a creation is rejected for the limit only when the
\* highlight holds MAX_PER_HIGHLIGHT comments (the first 5 succeed, the later
\* ones are rejected).
C10_CommentQuota ==
  \A h \in HighlightIds :
    /\ CommentCount(h) <= MAX_PER_HIGHLIGHT
    /\ LimitErrors > 0 => CommentCount(h) = MAX_PER_HIGHLIGHT

\* ======================================================================
\* Quota enforcer: reply depth
\* ======================================================================
\* depth of the stored comment with the given id: 0 without a parent
RECURSIVE Depth(_)
Depth(cid) ==
  LET rows == {r \in comments : r.id = cid}
      row == CHOOSE r \in rows : TRUE
  IN IF rows = {} \/ row.parent_id = Null THEN 0 ELSE 1 + Depth(row.parent_id)

\* depth a comment with this parentId would have
DepthUnder(parent) == IF parent = Null THEN 0 ELSE 1 + Depth(parent)

\* the step that completes a create-comment of connection c that passed the
\* joined, length and count checks
CmCompleted(c) == cm[c].pc = "insert" /\ cm'[c].pc = "idle"

\* C12: every stored comment has depth at most MAX_REPLY_DEPTH; a comment
\* or reply of depth up to MAX_REPLY_DEPTH is accepted and stored under its
\* parent, and a reply that would be deeper is rejected with a reply-depth
\* error and not stored.
C12_ReplyDepth ==
  /\ [](\A r \in comments : Depth(r.id) <= MAX_REPLY_DEPTH)
  /\ [][\A c \in Conns :
          CmCompleted(c) =>
            IF DepthUnder(cm[c].parent) <= MAX_REPLY_DEPTH
            THEN \E r \in comments' :
                   r.id = cm[c].cid /\ r.parent_id = cm[c].parent
            ELSE /\ \A r \in comments' : r.id # cm[c].cid
                 /\ Delivered(c, Event("error: Reply depth exceeded", Null,
                                       currentSession[c]))]_vars

\* ======================================================================
\* Quota enforcer: highlights per participant and document
\* ======================================================================
\* C11: the number of highlights one participant owns in one document never
\* exceeds MAX_PER_USER_PER_BOOK, whichever path created them.
C11_HighlightQuota ==
  \A h \in highlights :
    HighlightCount(h.user_id, h.book_id) <= MAX_PER_USER_PER_BOOK

\* ======================================================================
\* Progress tracker
\* ======================================================================
ProgressKind == "user-progress-updated"

\* C8: a progress report at or below the highest position already reported
\* by the participant is ignored: a peer is sent a user-progress-updated
\* event only for a position above every position it was sent for that
\* participant before, and a request changes the persisted row only to a
\* position above the persisted one.
C8_StaleReportIgnored ==
  [][/\ \A d \in Conns : \A ev \in BagToSet(inbox'[d]) :
          (ev.kind = ProgressKind /\ Delivered(d, ev)) =>
            \A old \in BagToSet(inbox[d]) :
              (old.kind = ProgressKind /\ old.id = ev.id) => old.pct < ev.pct
     /\ \A r \in posts \ posts' : \A row \in user_progress \ user_progress' :
          (r.pc = "update" /\ row.id = r.id) => row.progress < r.progress]_vars

\* C9: the persisted progress of a (book, profile) row never decreases,
\* whichever page or client the reports come from.
C9_ProgressNeverRegresses ==
  [][\A row \in user_progress : \E new \in user_progress' :
        new.id = row.id /\ new.progress >= row.progress]_vars

\* ======================================================================
\* Broadcast router: session isolation
\* ======================================================================
\* the events published for a session: presence, annotations, progress
SessionKinds ==
  {"user-joined-session", "user-left", "highlight-added", "comment-added",
   "user-progress-updated"}

\* C16: an event published for a session is delivered only to connections
\* currently joined to that session, also after a connection has issued
\* join-session for a different session.
C16_SessionIsolation ==
  [][\A d \in Conns : \A ev \in BagToSet(inbox'[d]) :
        (ev.kind \in SessionKinds /\ Delivered(d, ev)) =>
          currentSession[d] = ev.sid]_vars

\* ======================================================================
\* Presence registry: roster and joined notification
\* ======================================================================
\* the join of connection c is accepted, is rejected, sends its roster
JoinAccepted(c) == join[c].pc = "insert" /\ join'[c].pc = "users"
JoinRejected(c) == join[c].pc = "get" /\ join'[c].pc = "idle"
RosterKinds == {"session-users", "user-joined-session"}

\* C17: a successful join sends the roster to the joining connection only
\* and the joined notification to every other connection of the session
\* and to no connection of another session; a rejected join sends neither.
C17_RosterAndNotification ==
  [][\A c \in Conns :
       /\ JoinAccepted(c) =>
            \A d \in Conns \ {c} :
              Delivered(d, Event("user-joined-session", join[c].uid, join[c].sid))
                <=> (status[d] = "open" /\ currentSession[d] = join[c].sid)
       /\ (JoinCompleted(c) /\ join[c].sid \in Sessions) =>
            /\ Delivered(c, Event("session-users", join[c].uid, join[c].sid))
            /\ \A d \in Conns \ {c} : \A ev \in BagToSet(inbox'[d]) :
                 ev.kind = "session-users" => ~Delivered(d, ev)
       /\ JoinRejected(c) =>
            \A d \in Conns : \A ev \in BagToSet(inbox'[d]) :
              ev.kind \in RosterKinds => ~Delivered(d, ev)]_vars

\* ======================================================================
\* Presence registry: participant reuse
\* ======================================================================
\* C18: an accepted join that carries the id of a known participant reuses
\* that participant and creates no participant record; an accepted join
\* without a participant id creates a new participant.
C18_ParticipantReuse ==
  [][\A c \in Conns :
       JoinAccepted(c) =>
         /\ Known(join[c].pid) =>
              users' = users /\ currentUser'[c] = join[c].pid
         /\ join[c].pid = Null =>
              \E u \in users' \ users : currentUser'[c] = u.id]_vars

\* ======================================================================
\* Presence registry: one connection per participant
\* ======================================================================
\* the connections that hold participant p of session s
ConnectionsOf(s, p) ==
  {c \in Conns : currentSession[c] = s /\ currentUser[c] = p}

\* C19: every participant of a session is held by at most one connection,
\* also when a join carries the id of a participant whose connection is
\* lost and not yet reclaimed.
C19_OneConnectionPerParticipant ==
  \A u \in users : Cardinality(ConnectionsOf(u.session_id, u.id)) <= 1

\* a join carrying the id of a participant whose connection is lost but not
\* yet reclaimed has been accepted
C19_Witness ==
  \E c, d \in Conns :
    /\ c # d /\ join[c].pc = "users" /\ join[c].pid = currentUser[d]
    /\ join[c].sid = currentSession[d]
    /\ Known(join[c].pid) /\ status[d] = "closed" /\ disc[d].pc = "delete"

\* ======================================================================
\* Reconnection and disconnect reclaimer
\* ======================================================================
\* connection d has lost its transport and its participant is not reclaimed
LostNotReclaimed(d) == status[d] = "closed" /\ disc[d].pc = "delete"

\* a join carrying the participant id of the lost connection d has been
\* accepted on another connection
Reconnected(d) ==
  \E c \in Conns \ {d} :
    /\ join[c].pc = "users" /\ join[c].pid = disc[d].uid
    /\ join[c].sid = currentSession[d]

\* C20: the step in which the transport is lost reclaims nothing, and once
\* the participant has reconnected within the grace window its slot is kept
\* and no user-left is broadcast for it.
C20_GraceWindow ==
  [][\A d \in Conns :
       /\ (status[d] = "open" /\ status'[d] = "closed") =>
            users' = users /\ sessions' = sessions /\ pendingDec' = pendingDec
       /\ (LostNotReclaimed(d) /\ Reconnected(d)) =>
            /\ \A u \in users : u.id = disc[d].uid => u \in users'
            /\ pendingDec' = pendingDec
            /\ \A e \in Conns :
                 ~Delivered(e, Event("user-left", disc[d].uid,
                                     currentSession[d]))]_vars

\* ======================================================================
\* Client reconnection
\* ======================================================================
\* C21: a client makes at most RECONNECTION_ATTEMPTS reconnection attempts,
\* and a disconnect after the attempts are exhausted raises the terminal
\* error and sets no timer.
C21_ReconnectionBound ==
  /\ [](ws.reconnectAttempts <= RECONNECTION_ATTEMPTS)
  /\ [][(ws.connected /\ ~ws'.connected
          /\ ws.reconnectAttempts >= RECONNECTION_ATTEMPTS) =>
         (ws'.errors = ws.errors + 1 /\ ws'.timers = ws.timers)]_vars

\* ======================================================================
\* Progress aggregator: throttle
\* ======================================================================
\* the step completes the UPDATE of request r
Persisted(r) == r \in posts /\ r.pc = "update" /\ r \notin posts'

\* C22: two persisted progress writes of one participant are at least one
\* throttle interval apart, also when reports are sent while an earlier
\* write is in flight.
C22_OneWritePerInterval ==
  [][\A r \in posts : \A row \in user_progress :
       (Persisted(r) /\ ~r.inserted /\ row.id = r.id) =>
         now - row.last_updated >= PROGRESS_UPDATE_THROTTLE]_vars

NewTo(c) == inbox'[c] (-) inbox[c]
ErrorKinds ==
  {"error: Not connected to session", "error: Session not found",
   "error: Comment length invalid", "error: Failed to create comment",
   "error: Failed to create highlight"}

\* C24: no inbound message, malformed ones included, ends the process, and
\* a malformed message is answered with exactly one error event to its
\* sender.
C24_RecoveredAtBoundary ==
  /\ [](proc.state = "running")
  /\ [][\A c \in Conns :
          (proc'.malformed > proc.malformed /\ inbox'[c] # inbox[c]) =>
            /\ BagCardinality(NewTo(c)) = 1
            /\ \A ev \in BagToSet(NewTo(c)) : ev.kind \in ErrorKinds]_vars
  /\ [][proc'.malformed > proc.malformed => inbox' # inbox]_vars

\* the errors of a rejected join
RejectionKinds == {"error: Session is full", "error: Session not found"}

\* C25: a join rejected because the session is full or unknown sends one
\* error to the requesting connection only and changes neither the count,
\* the roster, the rooms nor what any other connection has received.
C25_RejectedJoinFrame ==
  [][\A c \in Conns :
       JoinRejected(c) =>
         /\ sessions' = sessions /\ users' = users /\ rooms' = rooms
         /\ pendingInc' = pendingInc /\ pendingDec' = pendingDec
         /\ currentUser' = currentUser /\ currentSession' = currentSession
         /\ \A d \in Conns \ {c} : inbox'[d] = inbox[d]
         /\ status[c] = "open" =>
              /\ BagCardinality(NewTo(c)) = 1
              /\ \A ev \in BagToSet(NewTo(c)) :
                   ev.kind \in RejectionKinds /\ ev.sid = join[c].sid]_vars

\* a join of the full session has been rejected while other connections
\* were in the session
C25_Witness ==
  \E c, d \in Conns :
    /\ c # d
    /\ Received(c, Event("error: Session is full", Null, "s1")) > 0
    /\ status[d] = "open" /\ "s1" \in rooms[d]

\* ======================================================================
\* Validation: comment length
\* ======================================================================
\* the step rejects a request for its length: the socket error, or the
\* 400 answer of the HTTP route
RejectedForLength ==
  \/ \E c \in Conns : \E ev \in BagToSet(inbox'[c]) :
       ev.kind = "error: Comment length invalid" /\ Delivered(c, ev)
  \/ responses' = Respond("comments", 400)

\* C26: no comment whose length is below MIN_LENGTH_CHARS or above
\* MAX_LENGTH_CHARS is stored, on either creation path, and a rejection
\* for the length changes no table and reaches the caller only.
C26_LengthValidated ==
  /\ [](\A r \in comments : ~CommentLengthInvalid(r.len))
  /\ [][RejectedForLength =>
          /\ comments' = comments
          /\ \A c \in Conns : BagCardinality(NewTo(c)) <= 1
          /\ Cardinality({c \in Conns : inbox'[c] # inbox[c]}) <= 1]_vars

\* ======================================================================
\* Confirmation and broadcast after the write
\* ======================================================================
HighlightEvents == {"highlight-created", "highlight-added"}
CommentEvents == {"comment-created", "comment-added"}

\* the step ends the write of connection c without a new row
HighlightWriteFailed(c) ==
  hl[c].pc = "insert" /\ hl'[c].pc = "idle" /\ highlights' = highlights
CommentWriteFailed(c) ==
  cm[c].pc = "insert" /\ cm'[c].pc = "idle" /\ comments' = comments

\* C27: a highlight or comment is confirmed and broadcast only when its
\* row has been written; when the write fails the originator receives one
\* error and nobody receives an event for it.
C27_EmitAfterWrite ==
  /\ [](\A c \in Conns : \A ev \in BagToSet(inbox[c]) :
          /\ ev.kind \in HighlightEvents => \E r \in highlights : r.id = ev.id
          /\ ev.kind \in CommentEvents => \E r \in comments : r.id = ev.id)
  /\ [][\A c \in Conns :
          (HighlightWriteFailed(c) \/ CommentWriteFailed(c)) =>
            /\ \A d \in Conns \ {c} : inbox'[d] = inbox[d]
            /\ status[c] = "open" =>
                 /\ BagCardinality(NewTo(c)) = 1
                 /\ \A ev \in BagToSet(NewTo(c)) : ev.kind \in ErrorKinds]_vars

\* the write of a highlight and the write of a comment have failed and
\* their originators have been told, with another connection in the room
C27_Witness ==
  /\ \E c \in Conns : \E ev \in BagToSet(inbox[c]) :
       ev.kind = "error: Failed to create highlight"
  /\ \E c \in Conns : \E ev \in BagToSet(inbox[c]) :
       ev.kind = "error: Failed to create comment"
  /\ \A d \in HlConns : status[d] = "open" /\ currentSession[d] = "s1"

\* ======================================================================
\* Quota predicates
\* ======================================================================
\* C28: a quota predicate answers true exactly when the count is below the
\* ceiling of the configuration resolved for the environment at process
\* start, the ceiling the server's handlers read from limits.
C28_PredicatesMatchEnvironment ==
  cfg.check.limit # "none" =>
    (cfg.check.result <=> cfg.check.count < cfg.limits[cfg.check.limit])

\* C29: after a successful upgradeToPhase every quota check reads the new
\* limits: the limits the handlers read are the new ones, and a validator
\* answers by the new ceiling.
C29_UpgradeReplacesLimits ==
  /\ [](cfg.phase # "none" => cfg.limits = cfg.newLimits)
  /\ [][(cfg.phase # "none" /\ cfg'.check # cfg.check) =>
          (cfg'.check.result <=> cfg'.check.count < cfg.newLimits[cfg'.check.limit])]_vars

\* ======================================================================
\* Stale participants
\* ======================================================================
\* C30: the progress query of a document leaves out every participant
\* whose last progress is older than SESSION_TIMEOUT_MS and returns every
\* participant whose last progress is newer; a query leaves the records
\* as they are, and the per-participant query returns the record whatever
\* its age.
C30_RosterBySessionTimeout ==
  [][got'.n # got.n =>
       /\ user_progress' = user_progress
       /\ got'.route = "progress" =>
            \A row \in user_progress :
              /\ now - row.last_updated > SESSION_TIMEOUT_MS => row \notin got'.users
              /\ now - row.last_updated < SESSION_TIMEOUT_MS => row \in got'.users
       /\ got'.route = "progress/:userId" =>
            \A row \in got'.users : row \in user_progress]_vars

\* ======================================================================
\* Message rate
\* ======================================================================
\* the messages processed at the clock values from t on and less than one
\* second after t
ProcessedWithin(t) ==
  LET ts == {u \in RateTimes : t <= u /\ u < t + RATE_WINDOW_MS}
      f == [k \in 1..(MaxRateTicks + 1) |->
              IF (k - 1) * RateStep \in ts THEN rl.processed[(k - 1) * RateStep] ELSE 0]
  IN SumTo(f, MaxRateTicks + 1)

\* C31: in any interval of one second at most MAX_MESSAGES_PER_SECOND
\* messages of the connection are processed; a message beyond the ceiling
\* is answered with an error and not processed.
C31_RateCeiling ==
  /\ [](\A t \in RateTimes : ProcessedWithin(t) <= MAX_MESSAGES_PER_SECOND)
  /\ [][rl'.errors = rl.errors + 1 => rl'.processed = rl.processed]_vars

\* ======================================================================
\* Error kinds
\* ======================================================================
\* the step tells connection c that a limit is reached
ToldLimit(c, kind) == \E ev \in BagToSet(NewTo(c)) : ev.kind = kind

\* C32: a connection is told that the highlight or comment limit is
\* reached only when the count has reached the ceiling; a failure of the
\* count query is not reported as a limit.
C32_LimitErrorMeansLimit ==
  [][\A c \in Conns :
       /\ ToldLimit(c, "error: Highlight limit reached") =>
            HighlightCount(hl[c].uid, hl[c].book) >= MAX_PER_USER_PER_BOOK
       /\ ToldLimit(c, "error: Comment limit reached") =>
            CommentLimitReached(CommentCount(cm[c].hid))]_vars

\* ======================================================================
\* Repeated joins of one connection
\* ======================================================================
\* the users rows the joins of connection c created
SlotsOf(c) == {u \in users : u.id[1] = c}

\* C33: whatever join-session messages a connection has sent, it holds at
\* most one users row, and once its disconnect has been handled it holds
\* none.
C33_OneSlotPerConnection ==
  \A c \in Conns :
    /\ Cardinality(SlotsOf(c)) <= 1
    /\ Reclaimed(c) => SlotsOf(c) = {}

\* ======================================================================
\* Sign of the participant count
\* ======================================================================
\* C34: user_count is never negative, and the decrement a disconnect
\* queues goes to the session that the join of the deleted user
\* incremented.
C34_CountNeverNegative ==
  /\ [](\A s \in Sessions : sessions[s] >= 0)
  /\ [][\A c \in Conns : \A s \in Sessions :
          (disc[c].pc = "delete" /\ disc'[c].pc = "done" /\
           pendingDec'[s] = pendingDec[s] + 1)
            => \A u \in users : u.id = disc[c].uid => u.session_id = s]_vars

\* ======================================================================
\* Messages of a connection that has not joined
\* ======================================================================
NotConnected == Event("error: Not connected to session", Null, NoSession)
\* the tables, and what the other connections have received
Untouched(c) ==
  /\ highlights' = highlights
  /\ comments' = comments
  /\ users' = users
  /\ sessions' = sessions
  /\ \A d \in Conns \ {c} : inbox'[d] = inbox[d]

\* C35: while no join of a connection has completed, its create-highlight
\* and create-comment are answered with one not-connected error and start
\* nothing, its update-progress is dropped, and none of them changes a
\* table or what another connection receives.
C35_NotJoinedNoEffect ==
  [][\A c \in Conns :
       currentUser[c] = Null =>
         /\ hlCount'[c] # hlCount[c] =>
              /\ inbox'[c] = inbox[c] (+) SetToBag({NotConnected})
              /\ hl' = hl
              /\ Untouched(c)
         /\ cmCount'[c] # cmCount[c] =>
              /\ inbox'[c] = inbox[c] (+) SetToBag({NotConnected})
              /\ cm' = cm
              /\ Untouched(c)
         /\ progCount'[c] # progCount[c] =>
              /\ inbox' = inbox
              /\ Untouched(c)]_vars

\* a connection whose join is still in flight has had a create-highlight
\* and a create-comment answered and an update-progress dropped, with the
\* connections of Init in the room
C35_Witness ==
  \E c \in Conns \ Joined :
    /\ currentUser[c] = Null
    /\ join[c].pc # "idle"
    /\ hlCount[c] > 0 /\ cmCount[c] > 0 /\ progCount[c] > 0
    /\ CopiesIn(NotConnected, inbox[c]) = hlCount[c] + cmCount[c]
    /\ \A d \in Joined : status[d] = "open" /\ currentSession[d] = "s1"

\* ======================================================================
\* One progress record per document and participant
\* ======================================================================
\* C36: user_progress holds at most one row per (document, participant);
\* a report whose INSERT OR IGNORE has run has its row, a row is never
\* removed, and no step changes the created_at of a row.
C36_OneRecordUpdatedInPlace ==
  /\ [](\A r1, r2 \in user_progress : r1.id = r2.id => r1 = r2)
  /\ [](\A r \in posts : r.pc = "update" => \E row \in user_progress : row.id = r.id)
  /\ [][\A row \in user_progress : \E new \in user_progress' :
          new.id = row.id /\ new.created_at = row.created_at]_vars

\* a second report has updated the row of the first one at a later time, and
\* both reports have been answered
C36_Witness ==
  /\ posts = {}
  /\ httpCount["progress"] >= 2
  /\ \E row \in user_progress : row.last_updated > row.created_at

\* ======================================================================
\* Profile names
\* ======================================================================
\* the answered requests that asked for name u in document b
Answered(b, u, code) ==
  {r \in profileReqs : r.pc = "done" /\ r.book = b /\ r.username = u /\ r.status = code}

\* C37: a document has at most one profile per trimmed username; of the
\* answered valid requests for one document and name exactly one created
\* the profile and every other one was answered 409 and created nothing;
\* documents do not share names.
C37_UniqueProfileNames ==
  /\ \A p1, p2 \in book_profiles :
       (p1.book_id = p2.book_id /\ p1.username = p2.username) => p1 = p2
  /\ \A r \in profileReqs :
       (r.pc = "done" /\ r.status # 400) =>
         /\ r.status \in {200, 409}
         /\ Cardinality(Answered(r.book, r.username, 200)) = 1
         /\ (r.status = 200) <=> (\E p \in book_profiles : p.id = r.arrived)
         /\ \E p \in book_profiles : p.book_id = r.book /\ p.username = r.username

\* two requests for the same document whose names are equal once trimmed
\* were in flight together and got 200 and 409, and the same name was
\* accepted in the other document
C37_Witness ==
  \E r1, r2, r3 \in profileReqs :
    /\ r1.book = r2.book /\ r1.username = r2.username /\ r1.arrived < r2.arrived
    /\ r1.pc = "done" /\ r2.pc = "done" /\ r1.answeredAt >= r2.arrived
    /\ {r1.status, r2.status} = {200, 409}
    /\ r3.book # r1.book /\ r3.username = r1.username /\ r3.status = 200

\* ======================================================================
\* Derived limits
\* ======================================================================
\* the size the upload enforces is the size /api/health reports
SizesAgree(limits) == limits.MAX_SIZE_BYTES = limits.MAX_SIZE_MB * 1024 * 1024

\* C38: in the limits of every environment and of every scaling phase
\* FILE.MAX_SIZE_BYTES is FILE.MAX_SIZE_MB * 1024 * 1024.
C38_DerivedSizeAgrees ==
  /\ SizesAgree(cfg.limits)
  /\ cfg.phase # "none" => SizesAgree(cfg.newLimits)

\* ======================================================================
\* The configuration functions are pure
\* ======================================================================
\* base, with the values override names in place of the base values
Overridden(base, override) ==
  [k \in DOMAIN base |-> IF k \in DOMAIN override THEN override[k] ELSE base[k]]

\* C39: getCurrentLimits and upgradeToPhase leave MVP_LIMITS and the
\* override tables as they were; what they return holds the base value of
\* every limit the override does not name and is the same at every call
\* with the same argument; upgradeToPhase with an unknown phase throws and
\* changes nothing.
C39_ConfigurationFunctionsPure ==
  /\ [](/\ tables.MVP_LIMITS = MVP_LIMITS
        /\ tables.ENVIRONMENT_OVERRIDES = ENVIRONMENT_OVERRIDES
        /\ tables.SCALING_PHASES = SCALING_PHASES)
  /\ [](cfg.config.environment # "none" =>
          cfg.config.limits =
            Overridden(MVP_LIMITS, ENVIRONMENT_OVERRIDES[cfg.config.environment]))
  /\ [](cfg.phase # "none" =>
          cfg.newLimits = Overridden(MVP_LIMITS, SCALING_PHASES[cfg.phase]))
  /\ [][(~cfg.thrown /\ cfg'.thrown) => cfg' = [cfg EXCEPT !.thrown = TRUE]]_vars

\* getCurrentLimits('testing') has been called after an upgrade to PHASE_3
\* and a thrown upgradeToPhase, and a validator has run since
C39_Witness ==
  /\ cfg.thrown
  /\ cfg.phase = "PHASE_3"
  /\ cfg.config.environment = "testing"
  /\ cfg.check.limit # "none"

ColdSpec == ColdInit /\ [][Next]_vars

\* Init is a state of ColdSpec (checked: TLC reaches it from ColdInit)
WarmStateNotReached ==
  ~ /\ sessions = [s \in Sessions |-> IF s = "s1" THEN 2 ELSE 0]
    /\ users = {[id |-> <<c, 1>>, session_id |-> "s1"] : c \in Joined}
    /\ \A s \in Sessions : pendingInc[s] = 0 /\ pendingDec[s] = 0
    /\ \A c \in Conns : join[c] = IdleJoin /\ disc[c] = IdleDisc
    /\ \A c \in Conns : status[c] = IF c \in Joined THEN "open" ELSE "new"
    /\ rooms = [c \in Conns |-> IF c \in Joined THEN {"s1"} ELSE {}]
    /\ \A c \in Conns : currentUser[c] = IF c \in Joined THEN <<c, 1>> ELSE Null
    /\ \A c \in Conns : joinCount[c] = IF c \in Joined THEN 1 ELSE 0
    /\ Received(1, Event("user-joined-session", <<2, 1>>, "s1")) = 1
    /\ Received(2, Event("session-users", <<2, 1>>, "s1")) = 1
    /\ BagCardinality(inbox[1]) = 3 /\ BagCardinality(inbox[2]) = 2
    /\ BagCardinality(inbox[3]) = 0

====
